---- MODULE Spec2Model ----
(***************************************************************************)
(* A model of the behaviours that the notes of this repository describe    *)
(* and of the example components and reducers they contain.                *)
(*                                                                         *)
(* Groups of state, each with its own specification:                       *)
(*   EffectSpec   one component with one Effect (ChatRoom and friends),    *)
(*                rendered, re-rendered, unmounted, with Strict Mode;      *)
(*   ReducerSpec  tasksReducer and the pure / impure 'added' reducers,     *)
(*                over a heap of arrays;                                   *)
(*   TreeSpec     state kept per position of the UI tree, keys, and the    *)
(*                two UserProfile variants;                                *)
(*   HookSpec     useState and useRef in one component, with the state     *)
(*                and the ref version of handleClick;                      *)
(*   ClickSpec    a click bubbling up Toolbar and ButtonWithDropdown;      *)
(*   PropsSpec    ParentComponent passing props to Avatar;                 *)
(*   EventSpec    the simplified useEffectEvent in Page and ChatRoom;      *)
(*   SearchSpec   SearchResults and its fetches;                           *)
(*   GuardSpec    AntiPatternComponent, its Effect guarded by a ref;       *)
(*   AppSpec      one-time initialisation in initializeApp or in an Effect;*)
(*   ToggleSpec   Toggle notifying its parent from an Effect or a handler; *)
(*   GameSpec     the Game with chained Effects beside the Game that       *)
(*                computes its next state in handlePlaceCard;              *)
(*   ChatSpec     Chat keeping its draft in localStorage;                  *)
(*   CartSpec     the custom hook useCart;                                 *)
(*   DelayedSpec  SearchResults with a delayed search and an ignore flag;  *)
(*   RefsSpec     list items registered in a Map by ref callbacks.         *)
(***************************************************************************)
EXTENDS Integers, Sequences, FiniteSets, TLC

VARIABLES
    \* ---- Effect group
    comp,        \* which example component is rendered
    strictMode,  \* TRUE in development Strict Mode, FALSE in production
    pc,          \* where the component is in its render / effect cycle
    roomId,      \* the roomId prop of the last render
    st,          \* the component's state of the last render
    queued,      \* the state a setter has queued for the next render
    dirty,       \* TRUE when a setter has scheduled a re-render
    effect,      \* the Effect React holds: its last deps and its cleanup
    resources,   \* the external system: open connections, listeners
    nextId,      \* identity of the next object an Effect run creates
    log,         \* the setup / cleanup calls of the latest mount, in order
    renders,     \* renders since the current mount
    mounts,      \* mounts so far
    \* ---- Reducer group
    heap,        \* arrays by reference
    stateRef,    \* the array useReducer holds as the current state
    reducer,     \* which reducer the component was given
    queue,       \* the actions dispatched and not yet reduced
    outcome,     \* what the last reducer call did
    calls,       \* reducer calls so far
    \* ---- Tree group
    variant,     \* which parent component is rendered
    want,        \* the element the parent's last render returned
    fiber,       \* the component instance React keeps, with its state
    shown,       \* what the last committed render displayed
    typedFor,    \* the id that was displayed when the held text was typed
    tpc,         \* where the tree is in its render / effect cycle
    tsteps,      \* parent renders so far
    \* ---- Hook group
    hooks,       \* the state slots React keeps for the component, in call order
    objects,     \* the objects created so far, by reference
    snapshot,    \* what the hooks returned to the last render
    pendingCount, \* the counts that setCount calls have queued for the next render
    console,     \* what the handlers have logged, in order
    hrenders,    \* runs of the component function so far
    \* ---- Click group
    layout,      \* which component is on the screen
    event,       \* the click event being dispatched: target, position, handlers run
    alerts,      \* the alerts shown so far, in order
    events,      \* clicks so far
    \* ---- Props group
    avatar,      \* which Avatar the parent imports
    user,        \* the user object of ParentComponent
    size,        \* the size attribute the parent writes, if any
    props,       \* the props object Avatar is called with
    output,      \* what Avatar returned
    stage,       \* how far the render has got
    \* ---- Event group
    page,        \* which component calls useEffectEvent
    pageProps,   \* the props of the last render
    closures,    \* the functions created so far: what each one's render gave it
    fnRef,       \* the ref object inside useEffectEvent
    returned,    \* the function useEffectEvent returned to the last render
    mounting,    \* TRUE when the last render was the mounting one
    ownEffect,   \* the component's own Effect: its last deps, what it subscribed
    visits,      \* the calls of the function made so far, with what each one saw
    prenders,    \* runs of the component function so far
    ppc,         \* where the component is in its render / effect cycle
    \* ---- Search group
    query,       \* the query prop of the last render
    results,     \* the results state
    isLoading,   \* the isLoading state
    fetches,     \* the fetches started so far, each pending, fulfilled or rejected
    searchDeps,  \* the dependency array of the last Effect run
    srenders,    \* runs of the component function so far
    spc,         \* where the component is in its render / effect cycle
    \* ---- Guard group
    apStrict,    \* whether the tree is wrapped in StrictMode
    apPc,        \* where AntiPatternComponent is in its mount / effect cycle
    apRoomId,    \* the roomId prop of the last render
    apPrevRoom,  \* the roomId the last removed instance had
    didRun,      \* the slot of useRef(false): the ref object, if any
    connections, \* the connections created so far
    apCleanup,   \* the cleanup function the last Effect run returned
    apDeps,      \* the dependency array of the last Effect run
    apMounts,    \* how often the component has been mounted
    apRenders,   \* re-renders of mounted instances so far
    \* ---- App group
    placement,   \* where the one-time logic lives
    appStrict,   \* whether App is wrapped in StrictMode
    appInitialized, \* the module-level flag
    initLog,     \* the one-time tasks performed since the page loaded
    initCalls,   \* calls of initializeApp so far
    appMounts,   \* how often App has been mounted
    appPc,       \* where the page and App are in their life cycle
    \* ---- Toggle group
    toggle,      \* which version of Toggle is used
    isOn,        \* the isOn state of the last render
    tPending,    \* the values setIsOn has queued since the last render
    onChange,    \* the onChange prop of the last render
    tDeps,       \* the dependency array of the last Effect run
    notified,    \* the calls of onChange so far
    tMounting,   \* whether the last render was the first of its instance
    tRenders,    \* runs of Toggle's function so far
    tClicks,     \* clicks so far
    tPc,         \* where Toggle is in its render / effect cycle
    \* ---- Game group
    hGame,       \* the state of the Game without Effects at its last render
    eGame,       \* the state of the Game with Effects at its last render
    hQueue,      \* the setter calls queued in the Game without Effects
    eQueue,      \* the setter calls queued in the Game with Effects
    eDeps,       \* the state at the last run of the Effects, if any
    hAlerts,     \* the cards on which the Game without Effects showed the alert
    eAlerts,     \* the cards on which the Game with Effects showed the alert
    hThrown,     \* the cards the Game without Effects rejected
    eThrown,     \* the cards the Game with Effects rejected
    placed,      \* the cards placed so far
    ePc,         \* where the Game with Effects is in its render / effect cycle
    eRenders,    \* re-renders of the Game with Effects so far
    \* ---- Chat group
    localStorage, \* the value stored under each chat-draft key, if any
    recipient,   \* the recipient prop of the last render
    draft,       \* the draft state of the last render
    cPending,    \* the draft setDraft has queued
    cDeps,       \* the dependency array of the last Effect run
    typed,       \* the last draft typed while each recipient was shown, if any
    cPc,         \* where Chat is in its render / effect cycle
    cSteps,      \* mounts, edits and recipient changes so far
    \* ---- Cart group
    cart,        \* the items and total state of the last render
    cartQueue,   \* the updater functions queued since the last render
    cartError,   \* the exception that ended a render, if any
    cartCalls,   \* calls of addItem and removeItem so far
    cartPc,      \* whether a re-render is due, or the component has failed
    \* ---- Delayed group
    dQuery,      \* the query state of the last render
    dResults,    \* the results state of the last render
    dQueue,      \* the setQuery and setResults calls queued since the last render
    dDeps,       \* the dependency array of the last Effect run
    runs,        \* the Effect runs so far, each with its ignore flag, timer and fetch
    setResultsCalls, \* the calls of setResults so far
    dPc,         \* where SearchResults is in its render / effect cycle
    dMounts,     \* how often SearchResults has been mounted
    dTyped,      \* calls of setQuery so far
    \* ---- Refs group
    listItems,   \* the ids of the items whose <li> is in the DOM
    domNodes,    \* the <li> node of each mounted item
    itemRefs,    \* itemRefs.current, the Map from id to node
    nextNode,    \* the next DOM node to be created
    scrolled,    \* the scrollIntoView calls so far
    listRenders  \* renders of the list so far

effVars  == <<comp, strictMode, pc, roomId, st, queued, dirty, effect,
              resources, nextId, log, renders, mounts>>
redVars  == <<heap, stateRef, reducer, queue, outcome, calls>>
treeVars == <<variant, want, fiber, shown, typedFor, tpc, tsteps>>
hookVars == <<hooks, objects, snapshot, pendingCount, console, hrenders>>
clickVars == <<layout, event, alerts, events>>
propsVars == <<avatar, user, size, props, output, stage>>
eventVars == <<page, pageProps, closures, fnRef, returned, mounting, ownEffect, visits, prenders, ppc>>
searchVars == <<query, results, isLoading, fetches, searchDeps, srenders, spc>>
guardVars == <<apStrict, apPc, apRoomId, apPrevRoom, didRun, connections, apCleanup, apDeps, apMounts, apRenders>>
appVars == <<placement, appStrict, appInitialized, initLog, initCalls, appMounts, appPc>>
toggleVars == <<toggle, isOn, tPending, onChange, tDeps, notified, tMounting, tRenders, tClicks, tPc>>
gameVars == <<hGame, eGame, hQueue, eQueue, eDeps, hAlerts, eAlerts, hThrown, eThrown, placed, ePc, eRenders>>
chatVars == <<localStorage, recipient, draft, cPending, cDeps, typed, cPc, cSteps>>
cartVars == <<cart, cartQueue, cartError, cartCalls, cartPc>>
delayedVars == <<dQuery, dResults, dQueue, dDeps, runs, setResultsCalls, dPc, dMounts, dTyped>>
refsVars == <<listItems, domNodes, itemRefs, nextNode, scrolled, listRenders>>
vars     == <<effVars, redVars, treeVars, hookVars, clickVars, propsVars, eventVars, searchVars, guardVars, appVars, toggleVars, gameVars, chatVars, cartVars, delayedVars, refsVars>>

----------------------------------------------------------------------------
\* Bounds of the model

MaxRenders == 3
MaxMounts  == 2
MaxCalls   == 3
MaxQueue   == 1
MaxTreeSteps == 4
MaxCount   == 2

MaxHookRenders == 3
MaxClicks == 3

MaxEvents == 3

MaxPageRenders == 3
MaxMessages == 2

MaxSearchRenders == 3

MaxApMounts == 2
MaxApRenders == 2

MaxInitCalls == 3
MaxAppMounts == 4

MaxToggleRenders == 4
MaxToggleClicks == 3

MaxCards == 22

MaxChatSteps == 4

MaxCartCalls == 3

MaxDelayedMounts == 1
MaxTyped == 2

MaxListRenders == 3
MaxScrolls == 1

----------------------------------------------------------------------------
\* The Effect group

Rooms      == {"general", "travel"}
DefaultUrl == "https://localhost:1234"
Urls       == {DefaultUrl, "https://localhost:5678"}
ScrollYs   == {0, 100}
NoRoom     == "none"

Components == {"ChatRoom", "ChatRoomUrl", "ServerConnector",
               "ScrollIndicator", "FadeInComponent", "BuggyChatRoom",
               "ChatRoomConstantUrl", "InfiniteLoop", "Counter"}

\* The components that take a roomId prop
HasRoomProp(c) ==
    c \in {"ChatRoom", "ChatRoomUrl", "BuggyChatRoom", "ChatRoomConstantUrl"}

\* The components whose Effect calls setCount(count + 1)
SetsCount(c) == c \in {"InfiniteLoop", "Counter"}

\* useState's initial values
InitialState == [serverUrl |-> DefaultUrl, scrollY |-> 0, count |-> 0]

\* Whether useEffect is given a second argument
HasDepsArray(c) == c # "InfiniteLoop"

\* (mutant) serverUrl is an object that every render creates anew
DepsOfFreshUrl(c, r, s) == <<r, renders>>

\* The dependency array of the component's Effect, evaluated in a render
DepsOf(c, r, s) ==
    CASE c = "ChatRoom"        -> <<r>>
      [] c = "BuggyChatRoom"   -> <<r>>
      [] c = "ChatRoomUrl"     -> <<s.serverUrl, r>>
      [] c = "ServerConnector" -> << >>
      [] c = "ScrollIndicator" -> << >>
      [] c = "FadeInComponent" -> << >>
      [] c = "ChatRoomConstantUrl" -> <<r, DefaultUrl>>
      [] c = "InfiniteLoop"    -> << >>
      [] c = "Counter"         -> <<s.count>>

\* (mutant) every Effect returns a cleanup function
AlwaysReturnsCleanup(c) == TRUE

\* Whether the Effect returns a cleanup function
ReturnsCleanup(c) == c # "BuggyChatRoom" /\ ~SetsCount(c)

\* The setup call the Effect body makes
SetupOp(c) ==
    CASE c = "ScrollIndicator" -> "addEventListener"
      [] c = "FadeInComponent" -> "setTimeout"
      [] SetsCount(c)          -> "setCount"
      [] OTHER                 -> "connect"

\* The object an Effect run creates and activates, from the values the run
\* closes over
NewResource(c, r, s, id) ==
    [id   |-> id,
     op   |-> SetupOp(c),
     room |-> IF HasRoomProp(c) THEN r ELSE NoRoom,
     url  |-> IF c = "ChatRoomUrl" THEN s.serverUrl ELSE DefaultUrl]

\* The external system before anything acted on it: no connection, no
\* listener, no timer, the DOM node fully visible
NoResources == [objects |-> {}, opacity |-> 1]

\* The Effect body: connect / addEventListener / setTimeout, on a new
\* object; FadeInComponent first makes its node invisible
RunSetup(res, c, r, s, id) ==
    [objects |-> IF SetsCount(c) THEN res.objects
                 ELSE res.objects \cup {NewResource(c, r, s, id)},
     opacity |-> IF c = "FadeInComponent" THEN 0 ELSE res.opacity]

\* The state the Effect body queues for the next render:
\* setCount(count + 1), with the count of the render the body closes over
SetupQueues(c, s, q) ==
    IF SetsCount(c) THEN [q EXCEPT !.count = s.count + 1] ELSE q

AlwaysRerun(prev, next) == TRUE

\* React's comparison of a dependency array with that of the last render
DepsChanged(prev, next) ==
    \/ Len(prev) # Len(next)
    \/ \E i \in 1..Len(prev) : prev[i] # next[i]

\* (mutant) useEffect(fn) is treated like useEffect(fn, [])
ShouldRunOnlyOnChange(c, prev, next) == DepsChanged(prev, next)

\* Whether the Effect runs again after a re-render: always when it has no
\* dependency array, otherwise when a dependency changed
ShouldRun(c, prev, next) == ~HasDepsArray(c) \/ DepsChanged(prev, next)

ForgetfulCleanup(res, obj) == res

\* The cleanup function: disconnect / removeEventListener / clearTimeout
\* on the object its own Effect run created; FadeInComponent's also resets
\* the node's opacity
RunCleanup(res, obj) ==
    [objects |-> res.objects \ {obj},
     opacity |-> IF obj.op = "setTimeout" THEN 0 ELSE res.opacity]

\* An object no Effect run created
NoObject == [id |-> 0, op |-> "none", room |-> NoRoom, url |-> DefaultUrl]

\* The Effect React holds before the first Effect run of a mount
NoEffect == [active |-> FALSE, deps |-> << >>, obj |-> NoObject,
             cleanup |-> FALSE]

\* The teardown call that undoes a setup call
TeardownOf(op) ==
    CASE op = "connect"          -> "disconnect"
      [] op = "addEventListener" -> "removeEventListener"
      [] op = "setTimeout"       -> "clearTimeout"
      [] op = "setCount"         -> "none"

\* What a cleanup call on an object looks like in the log
CleanupEvent(obj) == [obj EXCEPT !.op = TeardownOf(obj.op)]

\* The actions of this group leave the other groups alone
EffFrame ==
    UNCHANGED <<redVars, treeVars, hookVars, clickVars, propsVars,
                eventVars, searchVars, guardVars, appVars, toggleVars,
                gameVars, chatVars, cartVars, delayedVars, refsVars>>

\* The Effect body runs: it creates its object, activates it, and React
\* keeps the cleanup it returned
DoSetup(next) ==
    /\ resources' = RunSetup(resources, comp, roomId, st, nextId)
    /\ log' = Append(log, NewResource(comp, roomId, st, nextId))
    /\ effect' = [active  |-> TRUE,
                  deps    |-> DepsOf(comp, roomId, st),
                  obj     |-> NewResource(comp, roomId, st, nextId),
                  cleanup |-> ReturnsCleanup(comp)]
    /\ nextId' = nextId + 1
    /\ queued' = SetupQueues(comp, st, queued)
    /\ dirty' = (dirty \/ SetsCount(comp))
    /\ pc' = next

\* React calls the cleanup of the previous Effect run, when it returned one
DoCleanup(next) ==
    /\ IF effect.cleanup
         THEN /\ resources' = RunCleanup(resources, effect.obj)
              /\ log' = Append(log, CleanupEvent(effect.obj))
         ELSE UNCHANGED <<resources, log>>
    /\ pc' = next

\* The component appears on the screen: first render, state initialised
Mount(r) ==
    /\ pc = "unmounted"
    /\ mounts < MaxMounts
    /\ r = NoRoom <=> ~HasRoomProp(comp)
    /\ roomId' = r
    /\ st' = InitialState
    /\ queued' = InitialState
    /\ dirty' = FALSE
    /\ effect' = NoEffect
    /\ log' = << >>
    /\ renders' = 1
    /\ mounts' = mounts + 1
    /\ pc' = "commit"
    /\ resources' = [resources EXCEPT !.opacity = 1]
    /\ UNCHANGED <<comp, strictMode, nextId>>
    /\ EffFrame

\* (mutant) development behaves like production: no Strict Mode remount
MountEffectOnce ==
    /\ pc = "commit"
    /\ ~effect.active
    /\ DoSetup("idle")
    /\ UNCHANGED <<comp, strictMode, roomId, st, renders, mounts>>
    /\ EffFrame

\* After the first render is on the screen the Effect runs; in development
\* Strict Mode goes on to unmount and remount the component
MountEffect ==
    /\ pc = "commit"
    /\ ~effect.active
    /\ DoSetup(IF strictMode THEN "strictMounted" ELSE "idle")
    /\ UNCHANGED <<comp, strictMode, roomId, st, renders, mounts>>
    /\ EffFrame

\* Strict Mode (development): React immediately unmounts the component
StrictUnmount ==
    /\ pc = "strictMounted"
    /\ DoCleanup("strictUnmounted")
    /\ UNCHANGED <<comp, strictMode, roomId, st, queued, dirty, effect, nextId,
                   renders, mounts>>
    /\ EffFrame

\* Strict Mode (development): React immediately remounts it, same props
StrictRemount ==
    /\ pc = "strictUnmounted"
    /\ DoSetup("idle")
    /\ UNCHANGED <<comp, strictMode, roomId, st, renders, mounts>>
    /\ EffFrame

\* The parent re-renders the component, with the same or another roomId
ParentRerender(r) ==
    /\ pc = "idle"
    /\ renders < MaxRenders
    /\ r = NoRoom <=> ~HasRoomProp(comp)
    /\ roomId' = r
    /\ st' = queued
    /\ dirty' = FALSE
    /\ renders' = renders + 1
    /\ pc' = "commit"
    /\ UNCHANGED <<comp, strictMode, queued, effect, resources, nextId, log,
                   mounts>>
    /\ EffFrame

\* ChatRoomUrl's input: onChange calls setServerUrl
SetServerUrl(u) ==
    /\ pc = "idle"
    /\ comp = "ChatRoomUrl"
    /\ queued' = [queued EXCEPT !.serverUrl = u]
    /\ dirty' = TRUE
    /\ UNCHANGED <<comp, strictMode, pc, roomId, st, effect, resources, nextId,
                   log, renders, mounts>>
    /\ EffFrame

\* The window scrolls: every registered scroll listener calls setScrollY
Scroll(y) ==
    /\ pc = "idle"
    /\ \E x \in resources.objects : x.op = "addEventListener"
    /\ queued' = [queued EXCEPT !.scrollY = y]
    /\ dirty' = TRUE
    /\ UNCHANGED <<comp, strictMode, pc, roomId, st, effect, resources, nextId,
                   log, renders, mounts>>
    /\ EffFrame

\* FadeInComponent's timeout fires: the node becomes visible
TimerFires ==
    /\ \E x \in resources.objects :
          /\ x.op = "setTimeout"
          /\ resources' = [objects |-> resources.objects \ {x}, opacity |-> 1]
    /\ UNCHANGED <<comp, strictMode, pc, roomId, st, queued, dirty, effect,
                   nextId, log, renders, mounts>>
    /\ EffFrame

\* A queued state update is rendered
StateRerender ==
    /\ pc = "idle"
    /\ dirty
    /\ renders < MaxRenders
    /\ st' = queued
    /\ dirty' = FALSE
    /\ renders' = renders + 1
    /\ pc' = "commit"
    /\ UNCHANGED <<comp, strictMode, roomId, queued, effect, resources, nextId,
                   log, mounts>>
    /\ EffFrame

\* After a re-render whose dependencies are those of the last render,
\* the Effect is left running
UpdateSkip ==
    /\ pc = "commit"
    /\ effect.active
    /\ ~ShouldRun(comp, effect.deps, DepsOf(comp, roomId, st))
    /\ pc' = "idle"
    /\ UNCHANGED <<comp, strictMode, roomId, st, queued, dirty, effect,
                   resources, nextId, log, renders, mounts>>
    /\ EffFrame

\* (mutant) the re-synchronisation goes straight to the new setup
UpdateWithoutCleanup ==
    /\ pc = "commit"
    /\ effect.active
    /\ ShouldRun(comp, effect.deps, DepsOf(comp, roomId, st))
    /\ pc' = "resetup"
    /\ UNCHANGED <<comp, strictMode, roomId, st, queued, dirty, effect,
                   resources, nextId, log, renders, mounts>>
    /\ EffFrame

\* After a re-render with a changed dependency: first the cleanup of the
\* previous Effect run ...
UpdateCleanup ==
    /\ pc = "commit"
    /\ effect.active
    /\ ShouldRun(comp, effect.deps, DepsOf(comp, roomId, st))
    /\ DoCleanup("resetup")
    /\ UNCHANGED <<comp, strictMode, roomId, st, queued, dirty, effect, nextId,
                   renders, mounts>>
    /\ EffFrame

\* ... then the Effect body, with the values of the new render
UpdateSetup ==
    /\ pc = "resetup"
    /\ DoSetup("idle")
    /\ UNCHANGED <<comp, strictMode, roomId, st, renders, mounts>>
    /\ EffFrame

\* (mutant) the component is removed and its Effect is left running
UnmountWithoutCleanup ==
    /\ pc = "idle"
    /\ pc' = "unmounted"
    /\ effect' = NoEffect
    /\ dirty' = FALSE
    /\ UNCHANGED <<comp, strictMode, roomId, st, queued, resources, nextId,
                   log, renders, mounts>>
    /\ EffFrame

\* The component is removed from the screen: React runs the cleanup of the
\* last Effect run and destroys the component's state
Unmount ==
    /\ pc = "idle"
    /\ DoCleanup("unmounted")
    /\ effect' = NoEffect
    /\ dirty' = FALSE
    /\ UNCHANGED <<comp, strictMode, roomId, st, queued, nextId, renders, mounts>>
    /\ EffFrame

EffNext ==
    \/ \E r \in Rooms \cup {NoRoom} : Mount(r)
    \/ MountEffect
    \/ StrictUnmount
    \/ StrictRemount
    \/ \E r \in Rooms \cup {NoRoom} : ParentRerender(r)
    \/ \E u \in Urls : SetServerUrl(u)
    \/ \E y \in ScrollYs : Scroll(y)
    \/ TimerFires
    \/ StateRerender
    \/ UpdateSkip
    \/ UpdateCleanup
    \/ UpdateSetup
    \/ Unmount

----------------------------------------------------------------------------
\* The Reducer group

TaskIds == {1, 2}
Texts   == {"milk", "tea"}

\* The action types tasksReducer knows, and some it does not
KnownTypes   == {"added", "changed", "deleted"}
UnknownTypes == {"cleared", "Added"}

Tasks == [id : TaskIds, text : Texts, done : BOOLEAN]

\* The action objects the event handlers dispatch
Actions ==
    [type : {"added"}, id : TaskIds, text : Texts]
      \cup [type : {"changed"}, task : Tasks]
      \cup [type : {"deleted"}, id : TaskIds]
      \cup [type : UnknownTypes]

Reducers == {"tasksReducer", "pureReducer", "impureReducer"}

\* The reference that stands for undefined
Undefined == 0

\* A new array on the heap
Alloc(h, arr) == Append(h, arr)

\* case 'added': [...tasks, {id, text, done: false}]
AddedTasks(tasks, a) ==
    tasks \o <<[id |-> a.id, text |-> a.text, done |-> FALSE]>>

\* case 'changed': tasks.map(t => t.id === action.task.id ? action.task : t)
ChangedTasks(tasks, a) ==
    [i \in 1..Len(tasks) |->
        IF tasks[i].id = a.task.id THEN a.task ELSE tasks[i]]

\* case 'deleted': tasks.filter(t => t.id !== action.id)
DeletedTasks(tasks, a) ==
    LET Kept(t) == t.id # a.id
    IN  SelectSeq(tasks, Kept)

\* What a reducer call does: it returns a reference or throws, and leaves
\* the heap and the action object as they are after the call
Returned(h, ref, a) == [kind |-> "returned", heap |-> h, ret |-> ref, action |-> a]
Threw(h, msg, a)    == [kind |-> "threw", heap |-> h, msg |-> msg, action |-> a]

TasksReducerPushes(h, ref, a) ==
    CASE a.type = "added" ->
           Returned([h EXCEPT ![ref] = AddedTasks(h[ref], a)], ref, a)
      [] a.type = "changed" ->
           Returned(Alloc(h, ChangedTasks(h[ref], a)), Len(h) + 1, a)
      [] a.type = "deleted" ->
           Returned(Alloc(h, DeletedTasks(h[ref], a)), Len(h) + 1, a)
      [] OTHER ->
           Threw(h, "Unknown action: " \o a.type, a)

TasksReducerReturnsOnUnknown(h, ref, a) ==
    CASE a.type = "added" ->
           Returned(Alloc(h, AddedTasks(h[ref], a)), Len(h) + 1, a)
      [] a.type = "changed" ->
           Returned(Alloc(h, ChangedTasks(h[ref], a)), Len(h) + 1, a)
      [] a.type = "deleted" ->
           Returned(Alloc(h, DeletedTasks(h[ref], a)), Len(h) + 1, a)
      [] OTHER ->
           Returned(h, ref, a)

TasksReducerChangesFirst(h, ref, a) ==
    CASE a.type = "added" ->
           Returned(Alloc(h, AddedTasks(h[ref], a)), Len(h) + 1, a)
      [] a.type = "changed" ->
           Returned(Alloc(h,
                      [i \in 1..Len(h[ref]) |->
                          IF i = 1 /\ h[ref][i].id = a.task.id
                            THEN a.task ELSE h[ref][i]]),
                    Len(h) + 1, a)
      [] a.type = "deleted" ->
           Returned(Alloc(h, DeletedTasks(h[ref], a)), Len(h) + 1, a)
      [] OTHER ->
           Threw(h, "Unknown action: " \o a.type, a)

\* tasksReducer(tasks, action)
TasksReducer(h, ref, a) ==
    CASE a.type = "added" ->
           Returned(Alloc(h, AddedTasks(h[ref], a)), Len(h) + 1, a)
      [] a.type = "changed" ->
           Returned(Alloc(h, ChangedTasks(h[ref], a)), Len(h) + 1, a)
      [] a.type = "deleted" ->
           Returned(Alloc(h, DeletedTasks(h[ref], a)), Len(h) + 1, a)
      [] OTHER ->
           Threw(h, "Unknown action: " \o a.type, a)

\* DO THIS: the pure reducer; any other action falls off the end of the
\* function, which returns undefined
PureReducer(h, ref, a) ==
    IF a.type = "added"
      THEN IF ref = Undefined
             THEN Threw(h, "TypeError", a)
             ELSE Returned(Alloc(h, h[ref] \o <<[id |-> a.id, text |-> a.text]>>),
                           Len(h) + 1, a)
      ELSE Returned(h, Undefined, a)

\* AVOID THIS: tasks.push(...); return tasks
ImpureReducer(h, ref, a) ==
    IF a.type = "added"
      THEN IF ref = Undefined
             THEN Threw(h, "TypeError", a)
             ELSE Returned([h EXCEPT ![ref] =
                               h[ref] \o <<[id |-> a.id, text |-> a.text]>>],
                           ref, a)
      ELSE Returned(h, Undefined, a)

\* The reducer the component passed to useReducer
Reduce(which, h, ref, a) ==
    CASE which = "tasksReducer"  -> TasksReducer(h, ref, a)
      [] which = "pureReducer"   -> PureReducer(h, ref, a)
      [] which = "impureReducer" -> ImpureReducer(h, ref, a)

\* How a call ended: the state reference the reducer was given, the
\* reference it returned or the message it threw, and its action object
CallOutcome(prev, r) ==
    IF r.kind = "returned"
      THEN [kind |-> "returned", prev |-> prev, ret |-> r.ret,
            action |-> r.action]
      ELSE [kind |-> "threw", prev |-> prev, msg |-> r.msg,
            action |-> r.action]

\* The actions of this group leave the other groups alone
RedFrame ==
    UNCHANGED <<effVars, treeVars, hookVars, clickVars, propsVars,
                eventVars, searchVars, guardVars, appVars, toggleVars,
                gameVars, chatVars, cartVars, delayedVars, refsVars>>

\* An event handler dispatches an action: it is queued, nothing else
Dispatch(a) ==
    /\ outcome.kind # "threw"
    /\ Len(queue) < MaxQueue
    /\ calls + Len(queue) < MaxCalls
    /\ queue' = Append(queue, a)
    /\ UNCHANGED <<heap, stateRef, reducer, outcome, calls>>
    /\ RedFrame

\* React renders: it calls the reducer with the state it holds and the
\* oldest queued action, and keeps what the reducer returns as the state
ReduceNext ==
    /\ outcome.kind # "threw"
    /\ queue # << >>
    /\ LET r == Reduce(reducer, heap, stateRef, Head(queue))
       IN  /\ heap' = r.heap
           /\ stateRef' = IF r.kind = "returned" THEN r.ret ELSE stateRef
           /\ outcome' = CallOutcome(stateRef, r)
    /\ queue' = Tail(queue)
    /\ calls' = calls + 1
    /\ UNCHANGED reducer
    /\ RedFrame

RedNext ==
    \/ \E a \in Actions : Dispatch(a)
    \/ ReduceNext

----------------------------------------------------------------------------
\* The Tree group

\* The parent components of the notes: App rendering Counter, Profile or
\* nothing inside a div or a section; AddressBook rendering EditContactForm
\* with key={contact.id}; App rendering UserProfile with key={userId}; and
\* the parent of the UserProfile that resets its comment in an Effect
Variants == {"App", "AddressBook", "KeyedUserProfile", "EffectUserProfile"}

NoKey == ""
NoId  == ""
UserIds    == {"user1", "user2"}
ContactIds == {"1", "2"}
Comments   == {"hello", "draft"}

\* What a parent returns when it renders nothing at the position
Nothing == [wrapper |-> "div", type |-> "none", key |-> NoKey, id |-> NoId]

\* The elements a parent's render can return, over its props and state
ElementsOf(v) ==
    CASE v = "App" ->
           [wrapper : {"div", "section"}, type : {"Counter", "Profile"},
            key : {NoKey}, id : {NoId}] \cup {Nothing}
      [] v = "AddressBook" ->
           {[wrapper |-> "div", type |-> "EditContactForm", key |-> c, id |-> c] :
               c \in ContactIds} \cup {Nothing}
      [] v = "KeyedUserProfile" ->
           {[wrapper |-> "div", type |-> "UserProfile", key |-> u, id |-> u] :
               u \in UserIds}
      [] v = "EffectUserProfile" ->
           {[wrapper |-> "div", type |-> "UserProfile", key |-> NoKey, id |-> u] :
               u \in UserIds}

\* useState's initial values: a count of 0, an empty text
FreshState == [count |-> 0, text |-> ""]

NoFiber == [type |-> "none", wrapper |-> "div", key |-> NoKey,
            state |-> FreshState, deps |-> NoId]

\* An instance created for an element, with fresh state and no Effect
\* run yet
NewFiber(e) == [type |-> e.type, wrapper |-> e.wrapper, key |-> e.key,
                state |-> FreshState, deps |-> NoId]

\* Whether React takes the element for the instance it already keeps
SameInstance(f, e) ==
    /\ f.type # "none"
    /\ f.type = e.type
    /\ f.wrapper = e.wrapper
    /\ f.key = e.key

ReconcileAlwaysFresh(f, e) ==
    IF e.type = "none" THEN NoFiber ELSE NewFiber(e)

ReconcileIgnoringKey(f, e) ==
    IF f.type # "none" /\ f.type = e.type /\ f.wrapper = e.wrapper
      THEN [f EXCEPT !.key = e.key]
      ELSE IF e.type = "none" THEN NoFiber ELSE NewFiber(e)

\* What React keeps at the position after a render returned element e:
\* the instance and its state when e is the same type at the same position
\* with the same key, a new instance with fresh state otherwise, nothing
\* when nothing is rendered
Reconcile(f, e) ==
    IF SameInstance(f, e)
      THEN f
      ELSE IF e.type = "none" THEN NoFiber ELSE NewFiber(e)

\* What a render of the instance displays
Blank == [type |-> "none", id |-> NoId, count |-> 0, text |-> ""]
Display(f, e) ==
    IF f.type = "none" THEN Blank
    ELSE [type |-> f.type, id |-> e.id, count |-> f.state.count,
          text |-> f.state.text]

\* Whether the instance has an Effect on [userId] that has to run
ResetEffectDue(v, f, e) ==
    v = "EffectUserProfile" /\ f.type # "none" /\ f.deps # e.id

\* The actions of this group leave the other groups alone
TreeFrame ==
    UNCHANGED <<effVars, redVars, hookVars, clickVars, propsVars,
                eventVars, searchVars, guardVars, appVars, toggleVars,
                gameVars, chatVars, cartVars, delayedVars, refsVars>>

\* The parent renders and returns element e; React reconciles it with the
\* instance it keeps and commits what the instance displays
ParentRender(e) ==
    /\ tpc = "idle"
    /\ tsteps < MaxTreeSteps
    /\ want' = e
    /\ fiber' = Reconcile(fiber, e)
    /\ shown' = Display(fiber', e)
    /\ tpc' = IF ResetEffectDue(variant, fiber', e) THEN "effect" ELSE "idle"
    /\ tsteps' = tsteps + 1
    /\ UNCHANGED <<variant, typedFor>>
    /\ TreeFrame

\* The Effect on [userId] of the unkeyed UserProfile: setComment('') and
\* the re-render it causes
ResetEffect ==
    /\ tpc = "effect"
    /\ fiber' = [fiber EXCEPT !.state.text = "", !.deps = want.id]
    /\ shown' = Display(fiber', want)
    /\ tpc' = "idle"
    /\ UNCHANGED <<variant, want, typedFor, tsteps>>
    /\ TreeFrame

\* The user types into the form that is displayed: onChange sets the
\* text, and the form re-renders
TypeText(c) ==
    /\ tpc = "idle"
    /\ fiber.type \in {"EditContactForm", "UserProfile"}
    /\ fiber' = [fiber EXCEPT !.state.text = c]
    /\ shown' = Display(fiber', want)
    /\ typedFor' = shown.id
    /\ UNCHANGED <<variant, want, tpc, tsteps>>
    /\ TreeFrame

\* The user clicks the Counter that is displayed
ClickCounter ==
    /\ tpc = "idle"
    /\ fiber.type = "Counter"
    /\ fiber.state.count < MaxCount
    /\ fiber' = [fiber EXCEPT !.state.count = @ + 1]
    /\ shown' = Display(fiber', want)
    /\ UNCHANGED <<variant, want, typedFor, tpc, tsteps>>
    /\ TreeFrame

TreeNext ==
    \/ \E e \in ElementsOf(variant) : ParentRender(e)
    \/ ResetEffect
    \/ \E c \in Comments : TypeText(c)
    \/ ClickCounter

----------------------------------------------------------------------------
\* Properties of the Effect group

IsSetupOp(op) ==
    op \in {"connect", "addEventListener", "setTimeout", "setCount"}

\* The setup / cleanup calls of the current mount
MountLog == log

Setups(l)   == Cardinality({i \in 1..Len(l) : IsSetupOp(l[i].op)})
Cleanups(l) == Cardinality({i \in 1..Len(l) : ~IsSetupOp(l[i].op)})

\* The connections that are connected
Connected == {x \in resources.objects : x.op = "connect"}

\* C1: for a component whose Effect returns a cleanup, the setup and
\* cleanup calls strictly alternate starting with a setup, every cleanup is
\* the cleanup of the setup just before it (so no setup runs twice without
\* the previous setup's cleanup in between), a re-synchronisation that has
\* run its cleanup has not yet run the new body, and once the component is
\* unmounted the cleanup of the last Effect run has executed.
C1_CleanupBeforeNextSetup ==
    ReturnsCleanup(comp) =>
        /\ \A i \in 1..Len(log) : IsSetupOp(log[i].op) <=> (i % 2 = 1)
        /\ \A i \in 1..Len(log) :
              (i % 2 = 0) => log[i] = CleanupEvent(log[i - 1])
        /\ pc \in {"resetup", "strictUnmounted", "unmounted"} => Len(log) % 2 = 0
        /\ pc \in {"idle", "strictMounted"} => Len(log) % 2 = 1

\* C1 witness: a ChatRoom that connected, changed room (cleanup, then
\* setup) and was unmounted (cleanup of the last run)
C1_Witness ==
    /\ comp = "ChatRoom"
    /\ pc = "unmounted"
    /\ Len(MountLog) = 4
    /\ MountLog[1].room # MountLog[3].room
    /\ MountLog[4] = CleanupEvent(MountLog[3])

\* C2: for the ChatRoom components that connect and disconnect, at most one
\* connection is connected at any time; once the Effects of a render have
\* run the connected one is the connection for the current roomId; after
\* unmount none is connected.
C2_OneConnectionForCurrentRoom ==
    comp \in {"ChatRoom", "ChatRoomUrl"} =>
        /\ Cardinality(Connected) <= 1
        /\ pc = "idle" =>
              /\ Cardinality(Connected) = 1
              /\ \A x \in Connected : x.room = roomId /\ x.url = st.serverUrl
        /\ pc = "unmounted" => Connected = {}

\* C2 witness: under Strict Mode, after a room change and an unchanged
\* re-render, the one connection is the current room's
C2_Witness ==
    /\ comp = "ChatRoom"
    /\ strictMode
    /\ pc = "idle"
    /\ renders = 3
    /\ Len(MountLog) = 5
    /\ \E x \in Connected : x.room = roomId /\ x.room # MountLog[1].room

\* The dependency arrays an update render compares: that of the last
\* render, kept by React, and that of the render just committed
UpdateCommitted == pc = "commit" /\ effect.active
DepsDiffer == DepsOf(comp, roomId, st) # effect.deps

\* Whether the step re-synchronises the Effect (its cleanup, then its body)
\* or leaves it running
Resynchronises == pc' = "resetup"
LeftRunning    == pc' = "idle" /\ log' = log /\ resources' = resources

\* A step React takes in the component's render / effect cycle (the
\* external system's own steps, a timeout firing, are not)
ReactStep == pc' # pc

\* The next step of a re-synchronisation is the Effect body
BodyRunsNext ==
    (pc = "resetup" /\ ReactStep) =>
        /\ Len(log') = Len(log) + 1
        /\ IsSetupOp(log'[Len(log')].op)

\* C3 (part): after a re-render an Effect with a dependency array re-runs
\* if and only if a listed dependency differs from its value at the
\* previous render.
RerunsIffDepsDiffer ==
    /\ (HasDepsArray(comp) /\ UpdateCommitted /\ ReactStep) =>
            (Resynchronises <=> DepsDiffer)
    /\ (HasDepsArray(comp) /\ UpdateCommitted /\ ReactStep) =>
            (LeftRunning <=> ~DepsDiffer)
    /\ BodyRunsNext

\* A cleanup call is only ever made by an unmount
CleanupOnlyAtUnmount ==
    (Len(log') > Len(log) /\ ~IsSetupOp(log'[Len(log')].op)) =>
        pc' \in {"unmounted", "strictUnmounted"}

EmptyDeps == HasDepsArray(comp) /\ DepsOf(comp, roomId, st) = << >>
EffectsFlushed == pc \in {"idle", "unmounted"} /\ mounts > 0

\* C3 as claimed: an Effect re-runs after a render iff a dependency
\* differs; with an empty array the body runs exactly once after the
\* initial mount and the cleanup runs only at unmount.
C3_Original ==
    /\ [][RerunsIffDepsDiffer]_vars
    /\ [][EmptyDeps => CleanupOnlyAtUnmount]_vars
    /\ []((EmptyDeps /\ EffectsFlushed) => Setups(MountLog) = 1)

\* C3 as claimed, its run-once part alone: with an empty array the body
\* has run exactly once whenever the Effects of a mount have run.
C3_OriginalRunsOnce ==
    (EmptyDeps /\ EffectsFlushed) => Setups(MountLog) = 1

\* C3 amended: an Effect re-runs after a re-render iff a dependency
\* differs; with an empty array the body runs exactly once per mount in
\* production and exactly twice in development Strict Mode (once more after
\* the simulated unmount), and the cleanup runs only at an unmount, real
\* or simulated.
C3_RerunsIffDepsDiffer ==
    /\ [][RerunsIffDepsDiffer]_vars
    /\ [][EmptyDeps => CleanupOnlyAtUnmount]_vars
    /\ []((EmptyDeps /\ EffectsFlushed) =>
            Setups(MountLog) = IF strictMode THEN 2 ELSE 1)

\* C3 witness: a ServerConnector re-rendered twice after its mount whose
\* Effect body ran once, and a ChatRoom whose room change re-ran the Effect
C3_Witness ==
    \/ /\ comp = "ServerConnector"
       /\ ~strictMode
       /\ pc = "idle"
       /\ renders = 3
       /\ Setups(MountLog) = 1
    \/ /\ comp = "ChatRoom"
       /\ pc = "resetup"
       /\ effect.deps # DepsOf(comp, roomId, st)

\* The setup / cleanup calls of the current mount as the console shows them
Console == [i \in 1..Len(MountLog) |-> <<MountLog[i].op, MountLog[i].room>>]

\* C4: in development Strict Mode, mounting ChatRoom (with cleanup) for
\* roomId r makes exactly connect(r), disconnect(r), connect(r) and ends
\* with one active connection; in production it makes a single connect(r).
C4_StrictModeSequence ==
    (comp = "ChatRoom" /\ pc = "idle" /\ renders = 1) =>
        /\ Console = IF strictMode
                       THEN << <<"connect", roomId>>, <<"disconnect", roomId>>,
                               <<"connect", roomId>> >>
                       ELSE << <<"connect", roomId>> >>
        /\ Cardinality(Connected) = 1

\* C4 witness: a ChatRoom mounted in Strict Mode whose mount has settled
C4_Witness ==
    /\ comp = "ChatRoom"
    /\ strictMode
    /\ pc = "idle"
    /\ renders = 1
    /\ roomId = "general"
    /\ Len(MountLog) = 3

\* What the external system looks like from outside: which connections,
\* listeners and timers are active (not which objects they are) and how
\* the DOM node is styled
Look(x) == [op |-> x.op, room |-> x.room, url |-> x.url]
View(res) ==
    [active  |-> {<<Look(x),
                    Cardinality({y \in res.objects : Look(y) = Look(x)})>> :
                      x \in res.objects},
     opacity |-> res.opacity]

\* setup, cleanup, setup from the external state res, as the component's
\* Effect runs them for roomId r and state s
SetupCleanupSetup(res, c, r, s, id) ==
    RunSetup(RunCleanup(RunSetup(res, c, r, s, id), NewResource(c, r, s, id)),
             c, r, s, id + 1)

\* C5: for an Effect whose cleanup undoes its setup (connect / disconnect,
\* addEventListener / removeEventListener, setTimeout / clearTimeout) the
\* external system after setup, cleanup, setup is in the state a single
\* setup leaves it in: from every state the system is in, and in the
\* Strict Mode mount the component itself goes through (until the timeout
\* the last setup started fires).
C5_SetupCleanupSetup ==
    ReturnsCleanup(comp) =>
        /\ \A r \in Rooms \cup {NoRoom}, u \in Urls :
              LET s == [st EXCEPT !.serverUrl = u]
              IN  View(SetupCleanupSetup(resources, comp, r, s, nextId))
                    = View(RunSetup(resources, comp, r, s, nextId))
        /\ (strictMode /\ pc = "idle" /\ renders = 1
              /\ effect.obj \in resources.objects) =>
              View(resources) = View(RunSetup(NoResources, comp, roomId, st, 1))

\* C5 witness: a ScrollIndicator after Strict Mode's setup, cleanup, setup
C5_Witness ==
    /\ comp = "ScrollIndicator"
    /\ strictMode
    /\ pc = "idle"
    /\ renders = 1
    /\ Len(MountLog) = 3
    /\ Cardinality(resources.objects) = 1

----------------------------------------------------------------------------
\* Properties of the Reducer group

\* The step in which React calls the reducer
ReducerCalled == calls' = calls + 1

\* The indices of the tasks a 'deleted' action keeps
KeptIndices(tasks, id) == {i \in 1..Len(tasks) : tasks[i].id # id}

\* The j-th smallest member of a set of indices
Nth(S, j) == CHOOSE i \in S : Cardinality({k \in S : k < i}) = j - 1

\* C6: tasksReducer with 'added' returns the tasks followed by one new task
\* {id: action.id, text: action.text, done: false}; with 'changed' the tasks
\* in the same order with exactly the elements whose id is action.task.id
\* replaced by action.task; with 'deleted' the tasks in the same order
\* without the elements whose id is action.id.
C6_TasksReducerResult ==
    (reducer = "tasksReducer" /\ outcome.kind = "returned") =>
        LET a      == outcome.action
            before == heap[outcome.prev]
            after  == heap[outcome.ret]
        IN  /\ stateRef = outcome.ret
            /\ a.type = "added" =>
                  /\ Len(after) = Len(before) + 1
                  /\ SubSeq(after, 1, Len(before)) = before
                  /\ after[Len(after)] = [id |-> a.id, text |-> a.text,
                                           done |-> FALSE]
            /\ a.type = "changed" =>
                  /\ Len(after) = Len(before)
                  /\ \A i \in 1..Len(before) :
                        /\ before[i].id = a.task.id => after[i] = a.task
                        /\ before[i].id # a.task.id => after[i] = before[i]
            /\ a.type = "deleted" =>
                  /\ Len(after) = Cardinality(KeptIndices(before, a.id))
                  /\ \A j \in 1..Len(after) :
                        after[j] = before[Nth(KeptIndices(before, a.id), j)]

\* C6 witness: a 'changed' action replaced the second of two tasks
C6_Witness ==
    /\ reducer = "tasksReducer"
    /\ outcome.kind = "returned"
    /\ outcome.action.type = "changed"
    /\ Len(heap[stateRef]) = 2
    /\ heap[stateRef][2] = outcome.action.task
    /\ heap[outcome.prev][2] # outcome.action.task
    /\ heap[stateRef][1] # outcome.action.task

Result(r) ==
    [kind  |-> r.kind,
     array |-> IF r.kind = "returned" /\ r.ret # Undefined
                 THEN r.heap[r.ret] ELSE << >>,
     undef |-> r.kind = "returned" /\ r.ret = Undefined]

\* Whether a second call with the same state reference and the same action
\* hands back what the first did
SameAgain(which, h, ref, a) ==
    Result(Reduce(which, Reduce(which, h, ref, a).heap, ref, a))
      = Result(Reduce(which, h, ref, a))

PureReducers == {"tasksReducer", "pureReducer"}

\* A call of a pure reducer modifies no array and not its action, and an
\* array it returns is a new one
PureCall ==
    (ReducerCalled /\ reducer \in PureReducers) =>
        /\ \A ref \in DOMAIN heap : heap'[ref] = heap[ref]
        /\ outcome'.action = Head(queue)
        /\ (outcome'.kind = "returned" /\ outcome'.ret # Undefined) =>
              outcome'.ret \notin DOMAIN heap

\* A call of the impure reducer with 'added' changes the array held as the
\* previous state and returns that same array
ImpureCall ==
    (ReducerCalled /\ reducer = "impureReducer"
       /\ Head(queue).type = "added" /\ stateRef # Undefined) =>
        /\ heap'[stateRef] # heap[stateRef]
        /\ stateRef' = stateRef

----------------------------------------------------------------------------
\* Properties of the Tree group

\* The step in which the parent renders
RenderStep == tsteps' = tsteps + 1

\* The render returns a component of the type of the instance React keeps,
\* at its position (inside the same host element)
SameTypeSamePosition ==
    /\ fiber.type # "none"
    /\ want'.type = fiber.type
    /\ want'.wrapper = fiber.wrapper

\* The instance React keeps after the render is for the element rendered
KeepsWhatIsRendered ==
    /\ fiber'.type = want'.type
    /\ want'.type = "none" => fiber' = NoFiber

\* C9 as claimed: across re-renders the state is preserved exactly as long
\* as a component of the same type is rendered at the same position;
\* otherwise it is destroyed and a component rendered there starts from
\* its initial state.
C9_Original ==
    [][RenderStep =>
         /\ KeepsWhatIsRendered
         /\ IF SameTypeSamePosition
              THEN fiber'.state = fiber.state
              ELSE fiber'.state = FreshState]_vars

\* C9 amended: the state is preserved exactly as long as a component of
\* the same type and with the same key is rendered at the same position;
\* as soon as a different type, a different key or nothing is rendered
\* there it is destroyed, and a component rendered there later starts from
\* its initial state.
C9_StateTiedToPosition ==
    [][RenderStep =>
         /\ KeepsWhatIsRendered
         /\ IF SameTypeSamePosition /\ want'.key = fiber.key
              THEN fiber'.state = fiber.state
              ELSE fiber'.state = FreshState]_vars

\* C9 witness: the text typed into the form of contact 1 was destroyed
\* when the form of contact 2 was rendered at the position, and the form
\* rendered there started from its initial state
C9_Witness ==
    /\ variant = "AddressBook"
    /\ typedFor = "1"
    /\ want.key = "2"
    /\ fiber.type = "EditContactForm"
    /\ fiber.state = FreshState
    /\ tsteps = 2

KeyedVariants == {"AddressBook", "KeyedUserProfile"}

\* The render returns the instance's type with another key
KeyChanges ==
    /\ RenderStep
    /\ fiber.type # "none"
    /\ want'.type = fiber.type
    /\ want'.key # fiber.key

\* The unkeyed UserProfile is rendered for another userId while it holds
\* a comment
UserChangesUnderEffectVariant ==
    /\ variant = "EffectUserProfile"
    /\ RenderStep
    /\ fiber.type # "none"
    /\ want'.id # fiber.deps
    /\ fiber.state.text # ""

\* C10: when the key of the component at the position changes
\* (EditContactForm key={contact.id}, UserProfile key={userId}) the old
\* state is discarded and the very first render under the new key shows
\* the initial state, and no render shows text typed under another key;
\* the variant that resets the comment in an Effect on [userId] first
\* renders the new userId with the stale comment, which the Effect then
\* clears.
C10_KeyResetsState ==
    /\ [][(variant \in KeyedVariants /\ KeyChanges) =>
            /\ fiber'.state = FreshState
            /\ shown'.id = want'.id
            /\ shown'.text = ""]_vars
    /\ []((variant \in KeyedVariants /\ shown.text # "") =>
            typedFor = shown.id)
    /\ [][UserChangesUnderEffectVariant =>
            /\ shown'.id = want'.id
            /\ shown'.text = fiber.state.text
            /\ typedFor # shown'.id
            /\ tpc' = "effect"]_vars
    /\ [][(tpc = "effect" /\ tpc' = "idle") =>
            shown'.text = "" /\ shown'.id = shown.id]_vars

\* C10 witness: a comment was typed for user1 and the keyed UserProfile
\* now shows user2 with an empty comment
C10_Witness ==
    /\ variant = "KeyedUserProfile"
    /\ typedFor = "user1"
    /\ shown.id = "user2"
    /\ shown.text = ""
    /\ fiber.key = "user2"

\* C10, the Effect variant's case: user2 displayed with the comment typed
\* for user1
C10_StaleRender ==
    /\ variant = "EffectUserProfile"
    /\ typedFor = "user1"
    /\ shown.id = "user2"
    /\ shown.text = "hello"

----------------------------------------------------------------------------
\* The Hook group: a component with
\*     const [count, setCount] = useState(0);  const countRef = useRef(0);
\* and the two handleClick functions of the notes' comparison of state and
\* refs

InitialCount == 0
NoUpdate     == << >>
NoSnapshot   == [mounted |-> FALSE]

\* The actions of this group leave the other groups alone
HookFrame ==
    UNCHANGED <<effVars, redVars, treeVars, clickVars, propsVars,
                eventVars, searchVars, guardVars, appVars, toggleVars,
                gameVars, chatVars, cartVars, delayedVars, refsVars>>

\* (mutant) useState initialises its slot on every render
UseStateReinitialises(i, initialValue, updates) == initialValue

\* useState: on the first render the slot is created from the argument; on
\* a later render the argument is ignored and the slot's value, or the
\* last value the setter calls have queued for it, is returned
UseState(i, initialValue, updates) ==
    IF i \in DOMAIN hooks
        THEN IF updates # NoUpdate THEN updates[Len(updates)] ELSE hooks[i]
        ELSE initialValue

\* (mutant) useRef hands out the object of this render
UseRefPerRender(i, obj) == obj

\* useRef(initialValue) as the notes implement it:
\*     const [ref, _] = useState({ current: initialValue }); return ref;
\* obj is the object that the argument expression has just created
UseRef(i, obj) == UseState(i, obj, NoUpdate)

\* The component function runs: a first render, a re-render that a setter
\* scheduled, or a re-render caused by the parent
Render ==
    /\ hrenders < MaxHookRenders
    /\ LET obj      == Len(objects) + 1
           count    == UseState(1, InitialCount, pendingCount)
           countRef == UseRef(2, obj)
       IN  /\ objects' = Append(objects, [current |-> InitialCount])
           /\ hooks' = <<count, countRef>>
           /\ snapshot' = [mounted |-> TRUE, count |-> count,
                           countRef |-> countRef]
    /\ pendingCount' = NoUpdate
    /\ hrenders' = hrenders + 1
    /\ UNCHANGED console
    /\ HookFrame

\* State version: setCount(count + 1); console.log(count);
HandleClickState ==
    /\ snapshot.mounted
    /\ Len(console) < MaxClicks
    /\ pendingCount' = Append(pendingCount, snapshot.count + 1)
    /\ console' = Append(console, [handler |-> "state",
                                   value |-> snapshot.count])
    /\ UNCHANGED <<hooks, objects, snapshot, hrenders>>
    /\ HookFrame

\* Ref version: countRef.current = countRef.current + 1;
\*              console.log(countRef.current);
HandleClickRef ==
    /\ snapshot.mounted
    /\ Len(console) < MaxClicks
    /\ objects' = [objects EXCEPT ![snapshot.countRef].current = @ + 1]
    /\ console' = Append(console, [handler |-> "ref",
                          value |-> objects'[snapshot.countRef].current])
    /\ UNCHANGED <<hooks, snapshot, pendingCount, hrenders>>
    /\ HookFrame

\* The component is removed: React drops its slots and queued updates
HookUnmount ==
    /\ snapshot.mounted
    /\ hooks' = << >>
    /\ snapshot' = NoSnapshot
    /\ pendingCount' = NoUpdate
    /\ UNCHANGED <<objects, console, hrenders>>
    /\ HookFrame

HookNext ==
    \/ Render
    \/ HandleClickState
    \/ HandleClickRef
    \/ HookUnmount

----------------------------------------------------------------------------
\* Claims about the Hook group

\* A step in which a mounted component renders again
Rerender == snapshot.mounted /\ hrenders' = hrenders + 1

\* A step in which the handler named h runs
Clicked(h) ==
    /\ Len(console') = Len(console) + 1
    /\ console'[Len(console')].handler = h

\* The value the step's handler logged
Logged == console'[Len(console')].value

\* C11: for a mounted component, useRef returns the same ref object on
\* every render; a write to ref.current is what the handler reads back at
\* once and what every later read sees (no render resets it), and the write
\* schedules no re-render
C11_RefIsStable ==
    [][/\ Rerender =>
            /\ snapshot'.countRef = snapshot.countRef
            /\ objects'[snapshot.countRef] = objects[snapshot.countRef]
       /\ Clicked("ref") =>
            /\ Logged = objects[snapshot.countRef].current + 1
            /\ objects'[snapshot.countRef].current = Logged
            /\ pendingCount' = pendingCount
            /\ hrenders' = hrenders
            /\ snapshot' = snapshot
       /\ (snapshot.mounted /\ snapshot'.mounted /\ ~Clicked("ref")) =>
            objects'[snapshot.countRef] = objects[snapshot.countRef]]_vars

\* C11's case: the ref was written in two different renders and the second
\* handler read what the first had written
C11_Witness ==
    /\ snapshot.mounted
    /\ hrenders = 3
    /\ Len(console) = 2
    /\ console[1] = [handler |-> "ref", value |-> 1]
    /\ console[2] = [handler |-> "ref", value |-> 2]
    /\ objects[snapshot.countRef].current = 2
    /\ pendingCount = NoUpdate

\* C12: a setter call changes neither the state of the current render nor
\* what the calling handler reads (it logs the old count); the next render
\* returns the queued value; and the initial-value argument is used on the
\* first render only
C12_SetterKeepsSnapshot ==
    [][/\ Clicked("state") =>
            /\ snapshot' = snapshot
            /\ hooks' = hooks
            /\ Logged = snapshot.count
            /\ pendingCount' = Append(pendingCount, snapshot.count + 1)
       /\ (Rerender /\ pendingCount # NoUpdate) =>
            snapshot'.count = pendingCount[Len(pendingCount)]
       /\ (Rerender /\ pendingCount = NoUpdate) =>
            snapshot'.count = snapshot.count
       /\ (~snapshot.mounted /\ snapshot'.mounted) =>
            snapshot'.count = InitialCount]_vars

\* C12's case: the second render returned 1, and a handler of that render
\* called setCount(2) and logged 1
C12_Witness ==
    /\ snapshot.mounted
    /\ hrenders = 2
    /\ snapshot.count = 1
    /\ pendingCount = <<2>>
    /\ console[Len(console)] = [handler |-> "state", value |-> 1]

----------------------------------------------------------------------------
\* More claims about the Effect group

C14_NeverQuiescent ==
    /\ []((SetsCount(comp) /\ pc = "idle") =>
            /\ dirty
            /\ queued.count = st.count + 1
            /\ st.count = renders - 1)
    /\ [][(SetsCount(comp) /\ UpdateCommitted /\ ReactStep) =>
            Resynchronises]_vars
    /\ [][(SetsCount(comp) /\ ReactStep /\ pc' = "idle") =>
            /\ Len(log') = Len(log) + 1
            /\ log'[Len(log')].op = "setCount"]_vars

\* C14's case: the third render showed count 2 and its Effect has
\* scheduled a render with count 3
C14_Witness ==
    /\ SetsCount(comp)
    /\ pc = "idle"
    /\ renders = 3
    /\ st.count = 2
    /\ queued.count = 3
    /\ dirty

\* The Effect runs so far, over all mounts
EffectRuns == nextId - 1

\* C15: BuggyChatRoom never severs a connection: every connection an
\* Effect run opened is still open, whatever happened since (Strict Mode's
\* unmount and remount, a roomId change, an unmount), so the open
\* connections are as many as the Effect runs
C15_GhostConnections ==
    comp = "BuggyChatRoom" =>
        /\ Cardinality(Connected) = EffectRuns
        /\ \A i \in 1..Len(log) : log[i].op = "connect" /\ log[i] \in Connected

\* C15's case: after Strict Mode's remount and a roomId change three
\* connections are open, two of them to the room that was left
C15_Witness ==
    /\ comp = "BuggyChatRoom"
    /\ strictMode
    /\ pc = "idle"
    /\ Len(log) = 3
    /\ Cardinality(Connected) = 3
    /\ Cardinality({x \in Connected : x.room # roomId}) = 2

----------------------------------------------------------------------------
\* The Click group: a click event travelling up the element tree of Toolbar
\* or of ButtonWithDropdown, the latter with and without its
\* e.stopPropagation() call

Layouts == {"Toolbar", "ButtonWithDropdown", "ButtonWithDropdownBubbling"}

Root == "root"

\* The elements each component renders, under the root of the application
Elements(l) ==
    IF l = "Toolbar"
        THEN {Root, "toolbar", "button1", "button2"}
        ELSE {Root, "outer", "clickMe", "dropdownItem"}

\* The parent of each element
ParentOf(n) ==
    CASE n = "toolbar"      -> Root
      [] n = "button1"      -> "toolbar"
      [] n = "button2"      -> "toolbar"
      [] n = "outer"        -> Root
      [] n = "clickMe"      -> "outer"
      [] n = "dropdownItem" -> "outer"

\* e.target.tagName
TagName(n) == IF n \in {"button1", "button2", "clickMe"} THEN "BUTTON" ELSE "DIV"

NoHandler == "none"

\* The onClick prop of each element
OnClick(n) ==
    CASE n = "toolbar"      -> "handleClick"
      [] n = "outer"        -> "handleButtonClick"
      [] n = "dropdownItem" -> "handleDropdownClick"
      [] OTHER              -> NoHandler

\* (mutant) no handler stops the event
NeverStops(l, h) == FALSE

\* Whether the handler calls e.stopPropagation()
StopsPropagation(l, h) ==
    l = "ButtonWithDropdown" /\ h = "handleDropdownClick"

\* What the handler shows
AlertOf(h, target) ==
    CASE h = "handleClick"         -> <<"You clicked on a", TagName(target)>>
      [] h = "handleButtonClick"   -> <<"Button clicked!">>
      [] h = "handleDropdownClick" -> <<"Dropdown item clicked!">>

Done    == "done"
NoEvent == [target |-> Root, at |-> Done, stopped |-> FALSE, ran |-> << >>]

\* The actions of this group leave the other groups alone
ClickFrame ==
    UNCHANGED <<effVars, redVars, treeVars, hookVars, propsVars,
                eventVars, searchVars, guardVars, appVars, toggleVars,
                gameVars, chatVars, cartVars, delayedVars, refsVars>>

\* The user clicks element t: the event starts at its target
Click(t) ==
    /\ event.at = Done
    /\ events < MaxEvents
    /\ t \in Elements(layout)
    /\ event' = [target |-> t, at |-> t, stopped |-> FALSE, ran |-> << >>]
    /\ events' = events + 1
    /\ UNCHANGED <<layout, alerts>>
    /\ ClickFrame

\* The event is at an element: its onClick handler, if it has one, runs;
\* then the event goes on to the parent, unless the handler stopped it or
\* the element is the root
Propagate ==
    /\ event.at # Done
    /\ LET n       == event.at
           h       == OnClick(n)
           stopped == h # NoHandler /\ StopsPropagation(layout, h)
       IN  /\ alerts' = IF h = NoHandler THEN alerts
                        ELSE Append(alerts, AlertOf(h, event.target))
           /\ event' = [target  |-> event.target,
                        at      |-> IF stopped \/ n = Root THEN Done
                                    ELSE ParentOf(n),
                        stopped |-> stopped,
                        ran     |-> IF h = NoHandler THEN event.ran
                                    ELSE Append(event.ran,
                                            [element |-> n, handler |-> h])]
    /\ UNCHANGED <<layout, events>>
    /\ ClickFrame

ClickNext ==
    \/ \E t \in Elements("Toolbar") \cup Elements("ButtonWithDropdown") :
          Click(t)
    \/ Propagate

----------------------------------------------------------------------------
\* Claims about the Click group

\* Whether a is n or an ancestor of n
RECURSIVE IsSelfOrAncestor(_, _)
IsSelfOrAncestor(a, n) ==
    \/ a = n
    \/ n # Root /\ IsSelfOrAncestor(a, ParentOf(n))

\* The event has been dispatched completely
Dispatched == event.at = Done /\ events > 0

\* The elements whose handlers ran for the event
RanOn == {event.ran[i].element : i \in 1..Len(event.ran)}

\* C16: a click runs the onClick handlers of the target and of its
\* ancestors, innermost first; after a handler that calls
\* e.stopPropagation() no handler of an ancestor runs. In ButtonWithDropdown
\* a click on 'Dropdown Item' runs handleDropdownClick only; without the
\* stopPropagation call it runs handleDropdownClick and then
\* handleButtonClick.
C16_ClickBubbles ==
    Dispatched =>
        /\ \A i \in 1..Len(event.ran) :
              /\ IsSelfOrAncestor(event.ran[i].element, event.target)
              /\ event.ran[i].handler = OnClick(event.ran[i].element)
              /\ \A j \in 1..Len(event.ran) :
                    i < j => /\ event.ran[i].element # event.ran[j].element
                             /\ IsSelfOrAncestor(event.ran[j].element,
                                                 event.ran[i].element)
              /\ StopsPropagation(layout, event.ran[i].handler) =>
                    i = Len(event.ran)
        /\ \A n \in Elements(layout) :
              (IsSelfOrAncestor(n, event.target) /\ OnClick(n) # NoHandler) =>
                  \/ n \in RanOn
                  \/ \E i \in 1..Len(event.ran) :
                        /\ StopsPropagation(layout, event.ran[i].handler)
                        /\ event.ran[i].element # n
                        /\ IsSelfOrAncestor(n, event.ran[i].element)
        /\ (layout = "ButtonWithDropdown" /\ event.target = "dropdownItem") =>
              event.ran = <<[element |-> "dropdownItem",
                             handler |-> "handleDropdownClick"]>>
        /\ (layout = "ButtonWithDropdownBubbling"
                /\ event.target = "dropdownItem") =>
              event.ran = <<[element |-> "dropdownItem",
                             handler |-> "handleDropdownClick"],
                            [element |-> "outer",
                             handler |-> "handleButtonClick"]>>

\* C16's case: 'Dropdown Item' of ButtonWithDropdown was clicked, the event
\* is dispatched, and only the dropdown's alert was shown
C16_Witness ==
    /\ layout = "ButtonWithDropdown"
    /\ events = 1
    /\ event.target = "dropdownItem"
    /\ event.at = Done
    /\ event.stopped
    /\ alerts = << <<"Dropdown item clicked!">> >>

----------------------------------------------------------------------------
\* The Props group: ParentComponent renders <Avatar person={user}
\* size={100} />, with the Avatar of 2_MiddleComponent.jsx and the three
\* Avatars of the Props notes

Names    == {"Lin Lanying", "Katsuko Saruhashi"}
ImageIds == {"1bX5QH6", "YfeOqp2"}
Users    == [name : Names, imageId : ImageIds]

\* The size attribute in the parent's JSX: none, or one value
Sizes == {<< >>, <<100>>, <<50>>}

DefaultSize == 80

Avatars == {"2_MiddleComponent", "props", "destructured", "defaultSize"}

\* A property read of an object: one value, or none when the object has no
\* such property (undefined)
Get(obj, k) == IF k \in DOMAIN obj THEN <<obj[k]>> ELSE << >>

\* A property read of the result of a property read (reading a property
\* of undefined is not modelled: every Avatar that does so is given a
\* person)
GetIn(opt, k) == IF opt = << >> THEN << >> ELSE Get(opt[1], k)

\* A JSX attribute: React leaves out an attribute whose value is undefined
Attr(k, opt) == IF opt = << >> THEN << >> ELSE k :> opt[1]

\* The props object React builds from <Avatar person={user} size={...} />
PropsOf(u, s) == ("person" :> u) @@ Attr("size", s)

\* What each Avatar reads from its props
AvatarReads(a, p) ==
    CASE a = "2_MiddleComponent" ->
            \* function Avatar({ name, imageId, size })
            [name    |-> Get(p, "name"),
             imageId |-> Get(p, "imageId"),
             size    |-> Get(p, "size")]
      [] a \in {"props", "destructured"} ->
            \* props.person.name / function Avatar({ person, size })
            [name    |-> GetIn(Get(p, "person"), "name"),
             imageId |-> GetIn(Get(p, "person"), "imageId"),
             size    |-> Get(p, "size")]
      [] a = "defaultSize" ->
            \* function Avatar({ person, size = 80 })
            [name    |-> GetIn(Get(p, "person"), "name"),
             imageId |-> GetIn(Get(p, "person"), "imageId"),
             size    |-> IF Get(p, "size") = << >> THEN <<DefaultSize>>
                         ELSE Get(p, "size")]

\* <img className="avatar" src={imageId} alt={name} width={size}
\*      height={size} />
Img(r) ==
    ("className" :> "avatar") @@ Attr("src", r.imageId) @@ Attr("alt", r.name)
        @@ Attr("width", r.size) @@ Attr("height", r.size)

\* Card shows the children it is given
Card(children) == children

\* What Avatar returns: the img, and in 2_MiddleComponent.jsx also a Card
\* with a heading and a second img
AvatarOutput(a, p) ==
    LET r == AvatarReads(a, p)
    IN  [img  |-> Img(r),
         card |-> IF a = "2_MiddleComponent"
                    THEN Card([h2  |-> r.name,
                               img |-> ("className" :> "avatar")
                                          @@ Attr("src", r.imageId)])
                    ELSE << >>]

NoProps  == << >>
NoOutput == << >>

\* The actions of this group leave the other groups alone
PropsFrame ==
    UNCHANGED <<effVars, redVars, treeVars, hookVars, clickVars,
                eventVars, searchVars, guardVars, appVars, toggleVars,
                gameVars, chatVars, cartVars, delayedVars, refsVars>>

\* ParentComponent runs and returns <div><Avatar ... /></div>: React
\* collects the attributes into the props object
RenderParentComponent ==
    /\ stage = "start"
    /\ props' = PropsOf(user, size)
    /\ stage' = "parentRendered"
    /\ UNCHANGED <<avatar, user, size, output>>
    /\ PropsFrame

\* React calls Avatar with the props object
RenderAvatar ==
    /\ stage = "parentRendered"
    /\ output' = AvatarOutput(avatar, props)
    /\ stage' = "rendered"
    /\ UNCHANGED <<avatar, user, size, props>>
    /\ PropsFrame

PropsNext ==
    \/ RenderParentComponent
    \/ RenderAvatar

----------------------------------------------------------------------------
\* Claims about the Props group

\* C17: when ParentComponent renders the Avatar of 2_MiddleComponent.jsx
\* with person={user} and size={100}, Avatar receives
\* {person: {name, imageId}, size: 100}, its img has src = user.imageId,
\* alt = user.name, width and height 100, and the Card's heading shows
\* user.name
C17_AvatarShowsUser ==
    (avatar = "2_MiddleComponent" /\ size = <<100>> /\ stage = "rendered") =>
        /\ props = [person |-> user, size |-> 100]
        /\ output.img = [className |-> "avatar", src |-> user.imageId,
                         alt |-> user.name, width |-> 100, height |-> 100]
        /\ output.card.h2 = <<user.name>>

\* C17's case in the code: the img that Avatar returned for Lin Lanying
\* has neither src nor alt, and the heading is empty
C17_Divergence ==
    /\ avatar = "2_MiddleComponent"
    /\ user = [name |-> "Lin Lanying", imageId |-> "1bX5QH6"]
    /\ size = <<100>>
    /\ stage = "rendered"
    /\ props = [person |-> user, size |-> 100]
    /\ output.img = [className |-> "avatar", width |-> 100, height |-> 100]
    /\ output.card.h2 = << >>

----------------------------------------------------------------------------
\* The Event group: the simplified useEffectEvent of the notes,
\*     function useEffectEvent(fn) {
\*       const fnRef = useRef(fn);
\*       useEffect(() => { fnRef.current = fn; }, []);
\*       return fnRef.current;
\*     }
\* used by Page (logVisit reads numberOfItems) and by ChatRoom (onMessage
\* reads roomId). A function is its closure: the number of the render that
\* created it, which fixes the props it sees and the value of the render's
\* constants.

EventUsers == {"Page", "ChatRoom"}

PageUrls == {"/home", "/cart"}
ItemCounts == {0, 1}

\* The props (for Page: with the context value) a render can be given
PropsFor(c) ==
    IF c = "Page"
        THEN [url : PageUrls, numberOfItems : ItemCounts]
        ELSE [roomId : Rooms]

\* The value the function passed to useEffectEvent reads from its render
Reads(c, p) == IF c = "Page" THEN p.numberOfItems ELSE p.roomId

\* The dependency array of the component's own Effect: [url] / [roomId]
OwnDeps(c, p) == IF c = "Page" THEN <<p.url>> ELSE <<p.roomId>>

NoFn    == 0
NoFnRef == [exists |-> FALSE, current |-> NoFn]
NoPageProps == [mounted |-> FALSE]

\* The actions of this group leave the other groups alone
EventFrame ==
    UNCHANGED <<effVars, redVars, treeVars, hookVars, clickVars,
                propsVars, searchVars, guardVars, appVars, toggleVars,
                gameVars, chatVars, cartVars, delayedVars, refsVars>>

\* (mutant) the Effect inside useEffectEvent has no dependency array
EventEffectRunsEveryRender(first) == TRUE

\* Whether the Effect inside useEffectEvent runs after a render: its
\* dependency array is [], so after the mounting render only
EventEffectRuns(first) == first

\* useEffectEvent(fn) during a render: useRef(fn) creates the ref on the
\* first render and returns the same ref later; the value returned is what
\* fnRef.current holds at that moment
UseEffectEventRef(ref, fn) ==
    IF ref.exists THEN ref ELSE [exists |-> TRUE, current |-> fn]

\* Whether a call of Page's function f never returns. Its body is
\*     visitedUrl => { logVisit(visitedUrl, numberOfItems); }
\* inside  const logVisit = useEffectEvent(...): the name logVisit in the
\* body is that constant, the function useEffectEvent returned to the
\* render that created f, so the body calls that function, whose body calls
\* the constant of its own render, and so on; a call chain that comes back
\* to a function already on the stack ends in a RangeError
RECURSIVE Overflows(_, _)
Overflows(f, onStack) ==
    IF f \in onStack THEN TRUE
    ELSE Overflows(closures[f].binding, onStack \cup {f})

\* What calling function f with argument x does. Page's logs nothing when
\* the call overflows the stack; ChatRoom's displays the message when it is
\* for the roomId it sees and calls nothing else
CallFn(c, f, x) ==
    [arg   |-> x,
     saw   |-> Reads(c, closures[f].props),
     shown |-> IF c = "Page" THEN ~Overflows(f, {})
               ELSE x = Reads(c, closures[f].props),
     threw |-> IF c = "Page" /\ Overflows(f, {}) THEN "RangeError"
               ELSE "none"]

\* The component function runs, for the mount or for a re-render with
\* props p: a new fn is created and handed to useEffectEvent
PageRender(p) ==
    /\ ppc \in {"unmounted", "idle"}
    /\ prenders < MaxPageRenders
    /\ p \in PropsFor(page)
    /\ LET fn  == Len(closures) + 1
           ref == UseEffectEventRef(fnRef, fn)
       IN  /\ closures' = Append(closures, [props |-> p,
                                             binding |-> ref.current])
           /\ fnRef' = ref
           /\ returned' = ref.current
    /\ pageProps' = p
    /\ mounting' = (ppc = "unmounted")
    /\ prenders' = prenders + 1
    /\ ppc' = "commit"
    /\ UNCHANGED <<page, ownEffect, visits>>
    /\ EventFrame

\* After the render is committed its Effects run, in the order of their
\* declaration: first the one inside useEffectEvent, then the component's
\* own, which for Page calls logVisit(url) and for ChatRoom passes
\* onMessage to connection.on('message', ...)
FlushEffects ==
    /\ ppc = "commit"
    /\ fnRef' = IF EventEffectRuns(mounting)
                  THEN [fnRef EXCEPT !.current = Len(closures)]
                  ELSE fnRef
    /\ IF mounting \/ DepsChanged(ownEffect.deps, OwnDeps(page, pageProps))
         THEN /\ ownEffect' = [deps |-> OwnDeps(page, pageProps),
                               subscribed |-> IF page = "ChatRoom"
                                                THEN returned ELSE NoFn]
              /\ visits' = IF page = "Page"
                             THEN Append(visits,
                                     CallFn(page, returned, pageProps.url))
                             ELSE visits
         ELSE UNCHANGED <<ownEffect, visits>>
    /\ ppc' = "idle"
    /\ UNCHANGED <<page, closures, returned, pageProps, mounting, prenders>>
    /\ EventFrame

\* ChatRoom's connection delivers a message for room r: it calls the
\* function that the running Effect subscribed
MessageArrives(r) ==
    /\ ppc = "idle"
    /\ page = "ChatRoom"
    /\ Len(visits) < MaxMessages
    /\ visits' = Append(visits, CallFn(page, ownEffect.subscribed, r))
    /\ UNCHANGED <<page, closures, fnRef, returned, pageProps, mounting,
                   ownEffect, prenders, ppc>>
    /\ EventFrame

\* The component is removed: its ref and its Effects go with it
PageUnmount ==
    /\ ppc = "idle"
    /\ fnRef' = NoFnRef
    /\ returned' = NoFn
    /\ pageProps' = NoPageProps
    /\ ownEffect' = [deps |-> << >>, subscribed |-> NoFn]
    /\ ppc' = "unmounted"
    /\ UNCHANGED <<page, closures, mounting, visits, prenders>>
    /\ EventFrame

EventNext ==
    \/ \E p \in PropsFor("Page") \cup PropsFor("ChatRoom") : PageRender(p)
    \/ FlushEffects
    \/ \E r \in Rooms : MessageArrives(r)
    \/ PageUnmount

----------------------------------------------------------------------------
\* Claims about the Event group

\* A step in which the function obtained from useEffectEvent is called
FnCalled == Len(visits') = Len(visits) + 1

\* A step in which a mounted component renders again
PageRerender == ppc = "idle" /\ ppc' = "commit"

\* C18: whenever the function obtained from useEffectEvent(fn) is called
\* from an Effect (Page's logVisit at a visit, ChatRoom's onMessage at a
\* message), it runs the fn of the most recent render and so sees the
\* latest props: logVisit logs the current numberOfItems, onMessage
\* compares with the current roomId
C18_SeesLatestProps ==
    [][FnCalled =>
          visits'[Len(visits')].saw = Reads(page, pageProps')]_vars

\* C18's case in the code: ChatRoom was mounted in 'general' and is now in
\* 'travel'; a message for 'travel' arrived and was not displayed, because
\* onMessage compared it with 'general'
C18_Divergence ==
    /\ page = "ChatRoom"
    /\ ppc = "idle"
    /\ prenders = 2
    /\ pageProps = [roomId |-> "travel"]
    /\ ownEffect.deps = <<"travel">>
    /\ visits = <<[arg |-> "travel", saw |-> "general", shown |-> FALSE,
                   threw |-> "none"]>>

\* C19: while the component stays mounted, useEffectEvent(fn) returns in
\* every render the function it returned in the render before, however fn
\* changed; so the component's own Effect, which does not list that
\* function, never holds another function than the one being returned
C19_StableReference ==
    /\ [][PageRerender => returned' = returned]_vars
    /\ []((ppc = "idle" /\ page = "ChatRoom") =>
            ownEffect.subscribed = returned)

\* C19's case: three renders of one mount, each with a different fn, and
\* the function of the first render returned by the third
C19_Witness ==
    /\ ppc = "idle"
    /\ prenders = 3
    /\ Len(closures) = 3
    /\ closures[1].props # closures[2].props
    /\ closures[2].props # closures[3].props
    /\ returned = 1

----------------------------------------------------------------------------
\* The Search group: SearchResults({ query }), whose Effect on [query]
\* calls setIsLoading(true) and fetch, and whose promise callbacks call
\* setResults / setIsLoading whenever the fetch settles

Queries == {"react", "redux"}

\* What the server answers to /api/search?q=q
ResponseFor(q) == <<"data for", q>>

\* useState([]) and useState(false)
NoResults == << >>

\* No render yet, so no query prop
NoQuery == ""

\* The actions of this group leave the other groups alone
SearchFrame ==
    UNCHANGED <<effVars, redVars, treeVars, hookVars, clickVars,
                propsVars, eventVars, guardVars, appVars, toggleVars,
                gameVars, chatVars, cartVars, delayedVars, refsVars>>

\* The component function runs with query q: the mount, or a re-render by
\* the parent with the same or another query
SearchRender(q) ==
    /\ spc \in {"unmounted", "idle"}
    /\ srenders < MaxSearchRenders
    /\ query' = q
    /\ results' = IF spc = "unmounted" THEN NoResults ELSE results
    /\ isLoading' = IF spc = "unmounted" THEN FALSE ELSE isLoading
    /\ srenders' = srenders + 1
    /\ spc' = "commit"
    /\ UNCHANGED <<fetches, searchDeps>>
    /\ SearchFrame

\* After the render: the Effect runs if it has not run yet or if query
\* changed; it returns no cleanup, so an earlier fetch is left alone
SearchEffect ==
    /\ spc = "commit"
    /\ IF DepsChanged(searchDeps, <<query>>)
         THEN /\ isLoading' = TRUE
              /\ fetches' = Append(fetches, [q |-> query, status |-> "pending"])
              /\ searchDeps' = <<query>>
         ELSE UNCHANGED <<isLoading, fetches, searchDeps>>
    /\ spc' = "idle"
    /\ UNCHANGED <<query, results, srenders>>
    /\ SearchFrame

\* A fetch is fulfilled: .then(data => { setResults(data);
\* setIsLoading(false); })
FetchFulfilled(i) ==
    /\ i \in DOMAIN fetches
    /\ fetches[i].status = "pending"
    /\ results' = ResponseFor(fetches[i].q)
    /\ isLoading' = FALSE
    /\ fetches' = [fetches EXCEPT ![i].status = "fulfilled"]
    /\ UNCHANGED <<query, searchDeps, srenders, spc>>
    /\ SearchFrame

\* A fetch is rejected: .catch(() => setIsLoading(false))
FetchRejected(i) ==
    /\ i \in DOMAIN fetches
    /\ fetches[i].status = "pending"
    /\ isLoading' = FALSE
    /\ fetches' = [fetches EXCEPT ![i].status = "rejected"]
    /\ UNCHANGED <<query, results, searchDeps, srenders, spc>>
    /\ SearchFrame

SearchNext ==
    \/ \E q \in Queries : SearchRender(q)
    \/ SearchEffect
    \/ \E i \in 1..MaxSearchRenders : FetchFulfilled(i)
    \/ \E i \in 1..MaxSearchRenders : FetchRejected(i)

----------------------------------------------------------------------------
\* Claims about the Search group

\* Every fetch started so far has been answered
AllFulfilled ==
    \A i \in DOMAIN fetches : fetches[i].status = "fulfilled"

\* C20: once the Effects of the last render have run and every fetch has
\* been answered, in whatever order, results is the response for the
\* current query and isLoading is false
C20_ResultsMatchQuery ==
    (spc = "idle" /\ AllFulfilled) =>
        /\ results = ResponseFor(query)
        /\ ~isLoading

\* C20's case in the code: the query went from 'react' to 'redux', the
\* answer for 'redux' came first and the answer for 'react' last, and the
\* results shown are those for 'react'
C20_Divergence ==
    /\ spc = "idle"
    /\ query = "redux"
    /\ fetches = <<[q |-> "react", status |-> "fulfilled"],
                  [q |-> "redux", status |-> "fulfilled"]>>
    /\ results = ResponseFor("react")
    /\ ~isLoading

----------------------------------------------------------------------------
\* The Guard group: AntiPatternComponent, whose Effect is guarded by a ref
\*     const didRun = useRef(false);
\*     useEffect(() => {
\*       if (didRun.current) return;
\*       didRun.current = true;
\*       const connection = createConnection(roomId);
\*       connection.connect();
\*       return () => { connection.disconnect(); };
\*     }, [roomId]);

NoRef     == << >>
NoCleanup == << >>

\* The actions of this group leave the other groups alone
GuardFrame ==
    UNCHANGED <<effVars, redVars, treeVars, hookVars, clickVars,
                propsVars, eventVars, searchVars, appVars, toggleVars,
                gameVars, chatVars, cartVars, delayedVars, refsVars>>

\* (mutant) the slot of a removed component is kept for the next instance
KeepState(slot) == slot

\* "When React removes a component, it destroys its state."
DestroyState(slot) == NoRef

\* useRef(initialValue), i.e. useState({ current: initialValue }): the
\* object is created on the first render of an instance and handed out
\* again on every later render
GuardUseRef(slot, initialValue) ==
    IF slot = NoRef THEN <<[current |-> initialValue]>> ELSE slot

\* The Effect function of AntiPatternComponent run for roomId r in mount m:
\* the ref afterwards, the connections afterwards and the cleanup function
\* the run returns (none when it returns early)
AntiPatternEffect(ref, conns, r, m) ==
    IF ref[1].current
        THEN [ref |-> ref, conns |-> conns, cleanup |-> NoCleanup]
        ELSE [ref |-> <<[current |-> TRUE]>>,
              conns |-> Append(conns, [roomId |-> r, mount |-> m,
                                       connected |-> TRUE]),
              cleanup |-> <<Len(conns) + 1>>]

\* The cleanup function of a run: connection.disconnect()
Disconnect(conns, cleanup) ==
    IF cleanup = NoCleanup
        THEN conns
        ELSE [conns EXCEPT ![cleanup[1]].connected = FALSE]

\* The component is added to the tree and its function runs
ApMount(r) ==
    /\ apPc = "unmounted"
    /\ apMounts < MaxApMounts
    /\ didRun' = GuardUseRef(didRun, FALSE)
    /\ apRoomId' = r
    /\ apMounts' = apMounts + 1
    /\ apPc' = "mounted"
    /\ UNCHANGED <<apStrict, apPrevRoom, connections, apCleanup, apDeps,
                   apRenders>>
    /\ GuardFrame

\* The Effect runs after the first commit of an instance
ApMountEffect ==
    /\ apPc = "mounted"
    /\ LET run == AntiPatternEffect(didRun, connections, apRoomId, apMounts)
       IN  /\ didRun' = run.ref
           /\ connections' = run.conns
           /\ apCleanup' = run.cleanup
    /\ apDeps' = <<apRoomId>>
    /\ apPc' = IF apStrict THEN "strictUnmount" ELSE "idle"
    /\ UNCHANGED <<apStrict, apRoomId, apPrevRoom, apMounts, apRenders>>
    /\ GuardFrame

\* Strict Mode, step 2: the simulated unmount runs the cleanup function
ApStrictUnmount ==
    /\ apPc = "strictUnmount"
    /\ connections' = Disconnect(connections, apCleanup)
    /\ apCleanup' = NoCleanup
    /\ apPc' = "strictRemount"
    /\ UNCHANGED <<apStrict, apRoomId, apPrevRoom, didRun, apDeps,
                   apMounts, apRenders>>
    /\ GuardFrame

\* Strict Mode, step 3: the simulated remount runs the Effect again, on the
\* same instance
ApStrictRemount ==
    /\ apPc = "strictRemount"
    /\ LET run == AntiPatternEffect(didRun, connections, apRoomId, apMounts)
       IN  /\ didRun' = run.ref
           /\ connections' = run.conns
           /\ apCleanup' = run.cleanup
    /\ apPc' = "idle"
    /\ UNCHANGED <<apStrict, apRoomId, apPrevRoom, apDeps, apMounts,
                   apRenders>>
    /\ GuardFrame

\* The parent re-renders the mounted component with roomId r
ApRerender(r) ==
    /\ apPc = "idle"
    /\ apRenders < MaxApRenders
    /\ didRun' = GuardUseRef(didRun, FALSE)
    /\ apRoomId' = r
    /\ apRenders' = apRenders + 1
    /\ apPc' = IF DepsChanged(apDeps, <<r>>) THEN "update" ELSE "idle"
    /\ UNCHANGED <<apStrict, apPrevRoom, connections, apCleanup, apDeps,
                   apMounts>>
    /\ GuardFrame

\* roomId changed: the cleanup of the previous run, then the Effect again
ApUpdateEffect ==
    /\ apPc = "update"
    /\ LET run == AntiPatternEffect(didRun,
                      Disconnect(connections, apCleanup), apRoomId, apMounts)
       IN  /\ didRun' = run.ref
           /\ connections' = run.conns
           /\ apCleanup' = run.cleanup
    /\ apDeps' = <<apRoomId>>
    /\ apPc' = "idle"
    /\ UNCHANGED <<apStrict, apRoomId, apPrevRoom, apMounts, apRenders>>
    /\ GuardFrame

\* The component is removed for real: cleanup, then its state is destroyed
ApUnmount ==
    /\ apPc = "idle"
    /\ connections' = Disconnect(connections, apCleanup)
    /\ apCleanup' = NoCleanup
    /\ didRun' = DestroyState(didRun)
    /\ apPrevRoom' = apRoomId
    /\ apDeps' = << >>
    /\ apPc' = "unmounted"
    /\ UNCHANGED <<apStrict, apRoomId, apMounts, apRenders>>
    /\ GuardFrame

GuardNext ==
    \/ \E r \in Rooms : ApMount(r)
    \/ ApMountEffect
    \/ ApStrictUnmount
    \/ ApStrictRemount
    \/ \E r \in Rooms : ApRerender(r)
    \/ ApUpdateEffect
    \/ ApUnmount

----------------------------------------------------------------------------
\* Claims about the Guard group

\* The rooms to which a connection is open
ApConnected == {connections[i].roomId : i \in {j \in DOMAIN connections :
                                                connections[j].connected}}

\* The Effect runs for the first time in an instance
FirstEffectRun == apPc = "mounted" /\ apPc' # "mounted"

\* The Effect runs again in an instance that is already mounted
LaterEffectRun == apPc \in {"update", "strictRemount"} /\ apPc' = "idle"

----------------------------------------------------------------------------
\* The App group: one-time initialisation of the application, either in
\* initializeApp() guarded by the module-level flag appInitialized and
\* called from the entry file, or in an Effect of App with [] as its
\* dependency array

Placements == {"initializeApp", "useEffect"}

\* The actions of this group leave the other groups alone
AppFrame ==
    UNCHANGED <<effVars, redVars, treeVars, hookVars, clickVars,
                propsVars, eventVars, searchVars, guardVars, toggleVars,
                gameVars, chatVars, cartVars, delayedVars, refsVars>>

\* (mutant) initializeApp without its guard
InitializeAppUnguarded(flag, l) ==
    [appInitialized |-> TRUE,
     log |-> l \o <<"checkAuthToken", "loadUserDataFromLocalStorage">>]

\* function initializeApp() {
\*   if (appInitialized) return;
\*   appInitialized = true;
\*   checkAuthToken();
\*   loadUserDataFromLocalStorage();
\* }
\* The flag and the log of one-time tasks after a call
InitializeApp(flag, l) ==
    IF flag
        THEN [appInitialized |-> flag, log |-> l]
        ELSE [appInitialized |-> TRUE,
              log |-> l \o <<"checkAuthToken",
                             "loadUserDataFromLocalStorage">>]

\* The Effect of the anti-pattern App:
\*     loadDataFromLocalStorage(); checkAuthToken();
AppEffect(l) == l \o <<"loadDataFromLocalStorage", "checkAuthToken">>

\* The page loads: the modules are evaluated, `let appInitialized = false`
\* included, and the entry file calls initializeApp() where the notes put it
LoadPage ==
    /\ appPc = "notLoaded"
    /\ IF placement = "initializeApp"
         THEN LET r == InitializeApp(FALSE, initLog)
              IN  /\ appInitialized' = r.appInitialized
                  /\ initLog' = r.log
                  /\ initCalls' = initCalls + 1
         ELSE /\ appInitialized' = FALSE
              /\ UNCHANGED <<initLog, initCalls>>
    /\ appPc' = "unmounted"
    /\ UNCHANGED <<placement, appStrict, appMounts>>
    /\ AppFrame

\* Some code calls initializeApp() again
CallInitializeApp ==
    /\ appPc # "notLoaded"
    /\ placement = "initializeApp"
    /\ initCalls < MaxInitCalls
    /\ LET r == InitializeApp(appInitialized, initLog)
       IN  /\ appInitialized' = r.appInitialized
           /\ initLog' = r.log
    /\ initCalls' = initCalls + 1
    /\ UNCHANGED <<placement, appStrict, appPc, appMounts>>
    /\ AppFrame

\* App is mounted; its Effect, if it has one, is then pending
AppMount ==
    /\ appPc = "unmounted"
    /\ appMounts < MaxAppMounts
    /\ appMounts' = appMounts + 1
    /\ appPc' = IF placement = "useEffect" THEN "mounted"
                ELSE IF appStrict THEN "strictUnmount" ELSE "idle"
    /\ UNCHANGED <<placement, appStrict, appInitialized, initLog, initCalls>>
    /\ AppFrame

\* The Effect with [] runs after the mount
AppMountEffect ==
    /\ appPc = "mounted"
    /\ initLog' = AppEffect(initLog)
    /\ appPc' = IF appStrict THEN "strictUnmount" ELSE "idle"
    /\ UNCHANGED <<placement, appStrict, appInitialized, initCalls,
                   appMounts>>
    /\ AppFrame

\* Strict Mode, step 2: the simulated unmount; the Effect has no cleanup
AppStrictUnmount ==
    /\ appPc = "strictUnmount"
    /\ appPc' = "strictRemount"
    /\ UNCHANGED <<placement, appStrict, appInitialized, initLog, initCalls,
                   appMounts>>
    /\ AppFrame

\* Strict Mode, step 3: the simulated remount runs the Effect again
AppStrictRemount ==
    /\ appPc = "strictRemount"
    /\ initLog' = IF placement = "useEffect" THEN AppEffect(initLog)
                  ELSE initLog
    /\ appPc' = "idle"
    /\ UNCHANGED <<placement, appStrict, appInitialized, initCalls,
                   appMounts>>
    /\ AppFrame

\* App is removed
AppUnmount ==
    /\ appPc = "idle"
    /\ appPc' = "unmounted"
    /\ UNCHANGED <<placement, appStrict, appInitialized, initLog, initCalls,
                   appMounts>>
    /\ AppFrame

AppNext ==
    \/ LoadPage
    \/ CallInitializeApp
    \/ AppMount
    \/ AppMountEffect
    \/ AppStrictUnmount
    \/ AppStrictRemount
    \/ AppUnmount

----------------------------------------------------------------------------
\* Claims about the App group

\* How often the one-time task f has been performed since the page loaded
Performed(f) == Cardinality({i \in DOMAIN initLog : initLog[i] = f})

\* C22: with initializeApp and its flag, checkAuthToken and
\* loadUserDataFromLocalStorage have each been performed exactly once from
\* the moment the page has loaded, however often initializeApp is called
\* and App is mounted, Strict Mode or not; with the same tasks in App's
\* Effect, each has been performed twice once the first mount under Strict
\* Mode is complete (and once without Strict Mode)
C22_InitialisedOnce ==
    /\ (placement = "initializeApp" /\ appPc # "notLoaded")
          => /\ Performed("checkAuthToken") = 1
             /\ Performed("loadUserDataFromLocalStorage") = 1
             /\ Len(initLog) = 2
             /\ appInitialized
    /\ (placement = "useEffect" /\ appMounts = 1 /\ appPc = "idle")
          => /\ Performed("checkAuthToken") = (IF appStrict THEN 2 ELSE 1)
             /\ Performed("loadDataFromLocalStorage")
                   = (IF appStrict THEN 2 ELSE 1)

\* initializeApp has been called three times and App mounted twice under
\* Strict Mode, the last mount complete
C22_Witness ==
    /\ placement = "initializeApp"
    /\ appStrict
    /\ initCalls = 3
    /\ appMounts = 2
    /\ appPc = "idle"
    /\ initLog = <<"checkAuthToken", "loadUserDataFromLocalStorage">>

----------------------------------------------------------------------------
\* The Toggle group: a child that tells its parent about a change of its
\* isOn state, either in an Effect with [isOn, onChange] or in handleClick

ToggleVersions == {"effect", "handler"}

\* The functions the parent may pass as onChange
OnChangeFns == {"f", "g"}
NoOnChange  == "none"

\* The actions of this group leave the other groups alone
ToggleFrame ==
    UNCHANGED <<effVars, redVars, treeVars, hookVars, clickVars,
                propsVars, eventVars, searchVars, guardVars, appVars,
                gameVars, chatVars, cartVars, delayedVars, refsVars>>

\* useState(false) of Toggle: false on the first render of an instance,
\* afterwards the value of the last render or the last value queued for it
UseIsOn(first, slot, updates) ==
    IF first THEN FALSE
    ELSE IF updates # NoUpdate THEN updates[Len(updates)] ELSE slot

\* (mutant) handleClick never notifies the parent
HandleClickSilent(v, cur) == << >>

\* The arguments of the onChange calls that handleClick makes when the
\* render it belongs to had isOn = cur:
\*   Effect version:   setIsOn(!isOn);
\*   handler version:  const nextIsOn = !isOn; setIsOn(nextIsOn);
\*                     onChange(nextIsOn);
HandleClickNotifies(v, cur) ==
    IF v = "handler" THEN <<~cur>> ELSE << >>

\* One call of onChange as the parent sees it: the argument, where the
\* call was made, and how many renders and clicks Toggle had seen by then
OnChangeCall(value, from) ==
    [value |-> value, from |-> from, render |-> tRenders,
     click |-> tClicks + (IF from = "handler" THEN 1 ELSE 0)]

\* Toggle's function runs: the first render of an instance or a re-render,
\* with the onChange prop f
ToggleRender(f) ==
    /\ tPc \in {"unmounted", "idle"}
    /\ tRenders < MaxToggleRenders
    /\ isOn' = UseIsOn(tPc = "unmounted", isOn, tPending)
    /\ tPending' = NoUpdate
    /\ onChange' = f
    /\ tRenders' = tRenders + 1
    /\ tMounting' = (tPc = "unmounted")
    /\ tPc' = IF toggle = "effect" THEN "rendered" ELSE "idle"
    /\ UNCHANGED <<toggle, tDeps, notified, tClicks>>
    /\ ToggleFrame

\* After the commit the Effect runs if this is the first render of the
\* instance or isOn or onChange differ from the last run:
\*     useEffect(() => { onChange(isOn); }, [isOn, onChange]);
ToggleEffect ==
    /\ tPc = "rendered"
    /\ IF tMounting \/ DepsChanged(tDeps, <<isOn, onChange>>)
         THEN notified' = Append(notified, OnChangeCall(isOn, "effect"))
         ELSE UNCHANGED notified
    /\ tDeps' = <<isOn, onChange>>
    /\ tPc' = "idle"
    /\ UNCHANGED <<toggle, isOn, tPending, onChange, tMounting, tRenders,
                   tClicks>>
    /\ ToggleFrame

\* The user clicks: handleClick of the last render runs
ToggleClick ==
    /\ tPc = "idle"
    /\ tClicks < MaxToggleClicks
    /\ tPending' = Append(tPending, ~isOn)
    /\ LET args == HandleClickNotifies(toggle, isOn)
       IN  notified' = notified \o
               [i \in DOMAIN args |-> OnChangeCall(args[i], "handler")]
    /\ tClicks' = tClicks + 1
    /\ UNCHANGED <<toggle, isOn, onChange, tDeps, tMounting, tRenders, tPc>>
    /\ ToggleFrame

\* Toggle is removed: its state and queued updates are dropped
ToggleUnmount ==
    /\ tPc = "idle"
    /\ isOn' = FALSE
    /\ tPending' = NoUpdate
    /\ onChange' = NoOnChange
    /\ tDeps' = << >>
    /\ tPc' = "unmounted"
    /\ UNCHANGED <<toggle, notified, tMounting, tRenders, tClicks>>
    /\ ToggleFrame

ToggleNext ==
    \/ \E f \in OnChangeFns : ToggleRender(f)
    \/ ToggleEffect
    \/ ToggleClick
    \/ ToggleUnmount

----------------------------------------------------------------------------
\* Claims about the Toggle group

ClickStep    == tClicks' = tClicks + 1
ReRenderStep == tRenders' = tRenders + 1 /\ tPc = "idle"
LastCall(l)  == l[Len(l)]

\* C23: in the handler version every click adds exactly one onChange call,
\* made by the handler while the render count is still that of the render
\* the handler belongs to, no other step adds a call, and the re-render
\* that follows gives isOn the value of every call made since the last
\* render; in the Effect version a click adds no call, and every call is
\* made by the Effect after a render, with the isOn of that render
C23_NotifiesInHandler ==
    [][/\ (toggle = "handler" /\ ClickStep)
            => /\ Len(notified') = Len(notified) + 1
               /\ LastCall(notified').from = "handler"
               /\ LastCall(notified').render = tRenders
               /\ tRenders' = tRenders
               /\ LastCall(notified').value = ~isOn
       /\ (toggle = "handler" /\ ~ClickStep) => notified' = notified
       /\ (toggle = "handler" /\ ReRenderStep)
            => \A i \in DOMAIN notified :
                  notified[i].render = tRenders
                      => notified[i].value = isOn'
       /\ (toggle = "effect" /\ ClickStep) => notified' = notified
       /\ (toggle = "effect" /\ notified' # notified)
            => /\ tPc = "rendered"
               /\ Len(notified') = Len(notified) + 1
               /\ LastCall(notified').from = "effect"
               /\ LastCall(notified').value = isOn
               /\ LastCall(notified').render = tRenders
               /\ tRenders >= 1]_vars

\* The handler version after two clicks, each followed by a re-render: the
\* parent was told true, then false, and isOn is false again
C23_Witness ==
    /\ toggle = "handler"
    /\ tPc = "idle"
    /\ tClicks = 2
    /\ tRenders = 3
    /\ tPending = NoUpdate
    /\ ~isOn
    /\ Len(notified) = 2
    /\ notified[1].value /\ notified[1].render = 1
    /\ ~notified[2].value /\ notified[2].render = 2

----------------------------------------------------------------------------
\* More claims about the Reducer group

\* C24: when no case of tasksReducer matches the action's type, the call
\* returns the tasks array it was given, unchanged
C24_UnknownActionReturnsState ==
    [][(reducer = "tasksReducer" /\ ReducerCalled
          /\ Head(queue).type \notin KnownTypes) =>
            /\ outcome'.kind = "returned"
            /\ outcome'.ret = stateRef
            /\ stateRef' = stateRef
            /\ heap' = heap]_vars

----------------------------------------------------------------------------
\* The Game group: the Game built from chained Effects and the Game that
\* computes all next state in handlePlaceCard, played side by side with
\* the same cards, one card per render cycle

NoCard == << >>

\* const [card, setCard] = useState(null);
\* const [goldCardCount, setGoldCardCount] = useState(0);
\* const [round, setRound] = useState(1);
InitialGame == [card |-> NoCard, goldCardCount |-> 0, round |-> 1]

\* ... and, in the version with Effects,
\* const [isGameOver, setIsGameOver] = useState(false);
InitialEffectGame ==
    [card |-> NoCard, goldCardCount |-> 0, round |-> 1, isGameOver |-> FALSE]

\* The last round of a game: the game is over when round > 5
LastRound == 5

\* The most gold cards a round holds before the next one completes it
GoldPerRound == 3

\* The actions of this group leave the other groups alone
GameFrame ==
    UNCHANGED <<effVars, redVars, treeVars, hookVars, clickVars,
                propsVars, eventVars, searchVars, guardVars, appVars,
                toggleVars, chatVars, cartVars, delayedVars, refsVars>>

\* A call of a state setter: setX(value) or setX(x => x + value)
SetTo(slot, value) == [slot |-> slot, fn |-> "set", arg |-> value]
Add(slot, value)   == [slot |-> slot, fn |-> "add", arg |-> value]

\* The state of the next render: the queued setter calls applied in order
RECURSIVE ApplyUpdates(_, _)
ApplyUpdates(s, updates) ==
    IF updates = << >> THEN s
    ELSE LET u == Head(updates)
         IN  ApplyUpdates([s EXCEPT ![u.slot] =
                              IF u.fn = "set" THEN u.arg ELSE @ + u.arg],
                          Tail(updates))

\* const isGameOver = round > 5;
IsGameOver(s) == s.round > LastRound

\* What a call of handlePlaceCard does
Placed(updates, shows) ==
    [threw |-> FALSE, updates |-> updates, alert |-> shows]
GameEnded ==
    [threw |-> TRUE, msg |-> "Game already ended.", updates |-> << >>,
     alert |-> FALSE]

\* (mutant) handlePlaceCard without the isGameOver check
HandlePlaceCardUnchecked(s, nextCard) ==
    IF nextCard.gold
        THEN IF s.goldCardCount < GoldPerRound
               THEN Placed(<<SetTo("card", <<nextCard>>),
                             SetTo("goldCardCount", s.goldCardCount + 1)>>,
                           FALSE)
               ELSE Placed(<<SetTo("card", <<nextCard>>),
                             SetTo("goldCardCount", 0),
                             SetTo("round", s.round + 1)>>,
                           s.round + 1 > LastRound)
        ELSE Placed(<<SetTo("card", <<nextCard>>)>>, FALSE)

\* handlePlaceCard of the version without Effects, called in a render whose
\* state is s
HandlePlaceCard(s, nextCard) ==
    IF IsGameOver(s)
        THEN GameEnded
        ELSE IF nextCard.gold
               THEN IF s.goldCardCount < GoldPerRound
                      THEN Placed(<<SetTo("card", <<nextCard>>),
                                    SetTo("goldCardCount",
                                          s.goldCardCount + 1)>>,
                                  FALSE)
                      ELSE Placed(<<SetTo("card", <<nextCard>>),
                                    SetTo("goldCardCount", 0),
                                    SetTo("round", s.round + 1)>>,
                                  s.round + 1 > LastRound)
               ELSE Placed(<<SetTo("card", <<nextCard>>)>>, FALSE)

\* handlePlaceCard of the version with Effects
EffectHandlePlaceCard(s, nextCard) ==
    IF s.isGameOver
        THEN GameEnded
        ELSE Placed(<<SetTo("card", <<nextCard>>)>>, FALSE)

\* Whether the Effect with the dependency array [s[slot]] runs after a
\* render with state s, prev being the state of the last run (none after
\* the first render)
EffectDue(slot, s, prev) ==
    prev = << >> \/ DepsChanged(<<prev[1][slot]>>, <<s[slot]>>)

\* (mutant) the second Effect completes a round on the third gold card
RoundEffectAtThree(s) ==
    IF s.goldCardCount >= GoldPerRound
        THEN <<Add("round", 1), SetTo("goldCardCount", 0)>>
        ELSE << >>

\* The four Effects, each as the setter calls it makes
CardEffect(s) ==
    IF s.card # NoCard /\ s.card[1].gold
        THEN <<Add("goldCardCount", 1)>>
        ELSE << >>
RoundEffect(s) ==
    IF s.goldCardCount > GoldPerRound
        THEN <<Add("round", 1), SetTo("goldCardCount", 0)>>
        ELSE << >>
GameOverEffect(s) ==
    IF s.round > LastRound THEN <<SetTo("isGameOver", TRUE)>> ELSE << >>

\* The Effects that are due after a render, run in the order they are
\* declared: the setter calls they make and whether 'Good game!' is shown
ChainedEffects(s, prev) ==
    [updates |->
        (IF EffectDue("card", s, prev) THEN CardEffect(s) ELSE << >>)
        \o (IF EffectDue("goldCardCount", s, prev)
              THEN RoundEffect(s) ELSE << >>)
        \o (IF EffectDue("round", s, prev)
              THEN GameOverEffect(s) ELSE << >>),
     alert |-> EffectDue("isGameOver", s, prev) /\ s.isGameOver]

\* Both games are between two user actions: rendered, nothing queued, the
\* Effects flushed
Settled == hQueue = << >> /\ eQueue = << >> /\ ePc = "idle"

\* The user places a card, a new object: handlePlaceCard of each game runs
PlaceCard(gold) ==
    /\ Settled
    /\ placed < MaxCards
    /\ LET nextCard == [id |-> placed + 1, gold |-> gold]
           h == HandlePlaceCard(hGame, nextCard)
           e == EffectHandlePlaceCard(eGame, nextCard)
       IN  /\ hQueue' = h.updates
           /\ hAlerts' = IF h.alert THEN Append(hAlerts, nextCard.id)
                         ELSE hAlerts
           /\ hThrown' = IF h.threw THEN Append(hThrown, nextCard.id)
                         ELSE hThrown
           /\ eQueue' = e.updates
           /\ eThrown' = IF e.threw THEN Append(eThrown, nextCard.id)
                         ELSE eThrown
    /\ placed' = placed + 1
    /\ UNCHANGED <<hGame, eGame, eDeps, eAlerts, ePc, eRenders>>
    /\ GameFrame

\* The Game without Effects re-renders with the queued state
HandlerGameRender ==
    /\ hQueue # << >>
    /\ hGame' = ApplyUpdates(hGame, hQueue)
    /\ hQueue' = << >>
    /\ UNCHANGED <<eGame, eQueue, eDeps, hAlerts, eAlerts, hThrown, eThrown,
                   placed, ePc, eRenders>>
    /\ GameFrame

\* The Game with Effects re-renders with the queued state
EffectGameRender ==
    /\ ePc = "idle"
    /\ eQueue # << >>
    /\ eGame' = ApplyUpdates(eGame, eQueue)
    /\ eQueue' = << >>
    /\ ePc' = "rendered"
    /\ eRenders' = eRenders + 1
    /\ UNCHANGED <<hGame, hQueue, eDeps, hAlerts, eAlerts, hThrown, eThrown,
                   placed>>
    /\ GameFrame

\* After the commit the Effects whose dependency changed run
EffectGameFlush ==
    /\ ePc = "rendered"
    /\ LET run == ChainedEffects(eGame, eDeps)
       IN  /\ eQueue' = run.updates
           /\ eAlerts' = IF run.alert THEN Append(eAlerts, eGame.card[1].id)
                         ELSE eAlerts
    /\ eDeps' = <<eGame>>
    /\ ePc' = "idle"
    /\ UNCHANGED <<hGame, eGame, hQueue, hAlerts, hThrown, eThrown, placed,
                   eRenders>>
    /\ GameFrame

GameNext ==
    \/ \E gold \in BOOLEAN : PlaceCard(gold)
    \/ HandlerGameRender
    \/ EffectGameRender
    \/ EffectGameFlush

----------------------------------------------------------------------------
\* Claims about the Game group

\* handlePlaceCard runs
PlaceStep == placed' = placed + 1

\* C25: in the Game without Effects isGameOver is round > 5 in every
\* render; handlePlaceCard throws 'Game already ended.' exactly when
\* isGameOver is true, and the call that throws queues no change of card,
\* goldCardCount or round and raises no alert
C25_ThrowsWhenGameOver ==
    [][PlaceStep =>
         /\ IsGameOver(hGame) <=> hGame.round > 5
         /\ IsGameOver(hGame) <=> hThrown' # hThrown
         /\ hThrown' # hThrown =>
              /\ hThrown' = Append(hThrown, placed + 1)
              /\ hQueue' = << >>
              /\ hAlerts' = hAlerts
              /\ ApplyUpdates(hGame, hQueue') = hGame
         /\ hThrown' = hThrown =>
              /\ hQueue' # << >>
              /\ ApplyUpdates(hGame, hQueue').card[1].id = placed + 1]_vars

\* The game has ended on the twentieth gold card and the next card has
\* been rejected, the state as the last render showed it
C25_Witness ==
    /\ hQueue = << >>
    /\ hGame.round = 6
    /\ hGame.goldCardCount = 0
    /\ hAlerts = <<20>>
    /\ hGame.card = <<[id |-> 20, gold |-> TRUE]>>
    /\ hThrown = <<21>>

\* C30: whenever both games have settled they show the same card, the
\* same goldCardCount, which lies in 0..3, the same round and the same
\* isGameOver, they have shown 'Good game!' on the same card, and they
\* have rejected the same cards
C30_GamesAgree ==
    Settled =>
        /\ eGame.card = hGame.card
        /\ eGame.goldCardCount = hGame.goldCardCount
        /\ hGame.goldCardCount \in 0..3
        /\ eGame.round = hGame.round
        /\ eGame.isGameOver = IsGameOver(hGame)
        /\ eAlerts = hAlerts
        /\ eThrown = hThrown

\* Both games have ended on the same card, have shown the alert once, and
\* have rejected the card placed afterwards
C30_Witness ==
    /\ Settled
    /\ eGame.isGameOver
    /\ IsGameOver(hGame)
    /\ eAlerts = <<placed - 1>>
    /\ hAlerts = <<placed - 1>>
    /\ eThrown = <<placed>>
    /\ hThrown = <<placed>>
    /\ eGame.card[1].id = placed - 1

----------------------------------------------------------------------------
\* The Chat group: the Chat component that keeps its draft in localStorage
\*     const [draft, setDraft] = useState(() => {
\*       const savedDraft = localStorage.getItem(`chat-draft-${recipient}`);
\*       return savedDraft || "";
\*     });
\*     useEffect(() => {
\*       localStorage.setItem(`chat-draft-${recipient}`, draft);
\*     }, [draft, recipient]);

Recipients  == {"alice", "bob"}
NoRecipient == "none"
Drafts      == {"", "hi", "yo"}

\* `chat-draft-${recipient}`
DraftKey(r) == "chat-draft-" \o r
DraftKeys   == {DraftKey(r) : r \in Recipients}

\* localStorage.getItem(key): the stored string, or null (no value)
GetItem(store, key) == store[key]

\* localStorage.setItem(key, value)
SetItem(store, key, value) == [store EXCEPT ![key] = <<value>>]

\* savedDraft || "": null and the empty string both give ""
OrEmpty(saved) == IF saved = << >> \/ saved[1] = "" THEN "" ELSE saved[1]

\* The lazy initialiser of useState, run on the first render of an instance
InitialDraft(store, r) == OrEmpty(GetItem(store, DraftKey(r)))

\* The actions of this group leave the other groups alone
ChatFrame ==
    UNCHANGED <<effVars, redVars, treeVars, hookVars, clickVars,
                propsVars, eventVars, searchVars, guardVars, appVars,
                toggleVars, gameVars, cartVars, delayedVars, refsVars>>

\* Chat is added to the tree with the recipient r
ChatMount(r) ==
    /\ cPc = "unmounted"
    /\ cSteps < MaxChatSteps
    /\ recipient' = r
    /\ draft' = InitialDraft(localStorage, r)
    /\ cDeps' = << >>
    /\ cPc' = "rendered"
    /\ cSteps' = cSteps + 1
    /\ UNCHANGED <<localStorage, cPending, typed>>
    /\ ChatFrame

\* After the commit the Effect runs if this is the first render of the
\* instance or draft or recipient differ from the last run
ChatEffect ==
    /\ cPc = "rendered"
    /\ IF cDeps = << >> \/ DepsChanged(cDeps, <<draft, recipient>>)
         THEN localStorage' = SetItem(localStorage, DraftKey(recipient),
                                      draft)
         ELSE UNCHANGED localStorage
    /\ cDeps' = <<draft, recipient>>
    /\ cPc' = "idle"
    /\ UNCHANGED <<recipient, draft, cPending, typed, cSteps>>
    /\ ChatFrame

\* The user edits the draft: setDraft(d)
ChatType(d) ==
    /\ cPc = "idle"
    /\ cSteps < MaxChatSteps
    /\ cPending' = <<d>>
    /\ typed' = [typed EXCEPT ![recipient] = <<d>>]
    /\ cPc' = "dirty"
    /\ cSteps' = cSteps + 1
    /\ UNCHANGED <<localStorage, recipient, draft, cDeps>>
    /\ ChatFrame

\* Chat re-renders with the draft that was set
ChatRerender ==
    /\ cPc = "dirty"
    /\ draft' = cPending[1]
    /\ cPending' = << >>
    /\ cPc' = "rendered"
    /\ UNCHANGED <<localStorage, recipient, cDeps, typed, cSteps>>
    /\ ChatFrame

\* The parent re-renders the mounted Chat with another recipient; Chat
\* stays at its position, so its state is preserved
ChatRecipientChange(r) ==
    /\ cPc = "idle"
    /\ cSteps < MaxChatSteps
    /\ r # recipient
    /\ recipient' = r
    /\ cPc' = "rendered"
    /\ cSteps' = cSteps + 1
    /\ UNCHANGED <<localStorage, draft, cPending, cDeps, typed>>
    /\ ChatFrame

\* Chat is removed: its state is destroyed, localStorage stays
ChatUnmount ==
    /\ cPc = "idle"
    /\ recipient' = NoRecipient
    /\ draft' = ""
    /\ cDeps' = << >>
    /\ cPc' = "unmounted"
    /\ UNCHANGED <<localStorage, cPending, typed, cSteps>>
    /\ ChatFrame

ChatNext ==
    \/ \E r \in Recipients : ChatMount(r)
    \/ ChatEffect
    \/ \E d \in Drafts : ChatType(d)
    \/ ChatRerender
    \/ \E r \in Recipients : ChatRecipientChange(r)
    \/ ChatUnmount

----------------------------------------------------------------------------
\* Claims about the Chat group

\* What the key of r holds if only drafts of r are written under it: no
\* value, or the last draft typed while r was the recipient ("" if none)
OwnDraft(r) == IF typed[r] = << >> THEN <<"">> ELSE typed[r]

\* C26: once the Effects have run, the value stored under chat-draft-<r>
\* is the last draft typed while r was the recipient (never a draft typed
\* for another recipient), and a Chat mounted for r starts with the draft
\* stored for r
C26_DraftsPerRecipient ==
    /\ cPc \in {"idle", "unmounted"} =>
          \A r \in Recipients :
             \/ GetItem(localStorage, DraftKey(r)) = << >>
             \/ GetItem(localStorage, DraftKey(r)) = OwnDraft(r)
    /\ (cPc = "rendered" /\ cDeps = << >>) =>
          <<draft>> = OwnDraft(recipient)

\* The draft typed for one recipient is stored under the other
\* recipient's key
C26_Divergence ==
    /\ cPc = "idle"
    /\ \E r \in Recipients :
          /\ recipient = r
          /\ typed[r] = << >>
          /\ GetItem(localStorage, DraftKey(r)) = <<"hi">>

----------------------------------------------------------------------------
\* The Cart group: the custom hook useCart
\*     const [items, setItems] = useState([]);
\*     const [total, setTotal] = useState(0);

\* The items a component may pass to addItem
CartItems == {[id |-> 1, price |-> 5], [id |-> 2, price |-> 7],
              [id |-> 3, price |-> 5]}
CartIds   == {item.id : item \in CartItems}
NoError   == << >>

\* The actions of this group leave the other groups alone
CartFrame ==
    UNCHANGED <<effVars, redVars, treeVars, hookVars, clickVars,
                propsVars, eventVars, searchVars, guardVars, appVars,
                toggleVars, gameVars, chatVars, delayedVars, refsVars>>

\* What running an updater function gives: a value, or an exception
Value(v)      == [kind |-> "value", value |-> v]
Throws(msg)   == [kind |-> "threw", msg |-> msg]

\* prev => [...prev, item]
ItemsAfterAdd(prev, item) == Value(Append(prev, item))

\* prev => prev + item.price
TotalAfterAdd(prev, item) == Value(prev + item.price)

\* prev => prev.filter(item => item.id !== id)
ItemsAfterRemove(prev, id) ==
    LET Kept(item) == item.id # id
    IN  Value(SelectSeq(prev, Kept))

\* prev => { const itemToRemove = prev.find(item => item.id === id);
\*           return prev - (itemToRemove?.price || 0); }
\* prev is the previous total, a number: it has no find method, so the
\* call prev.find(...) throws before anything is subtracted
TotalAfterRemove(prev, id) ==
    Throws("TypeError: prev.find is not a function")

\* The updater functions a call queues, in the order of the setter calls
AddItemUpdaters(item) ==
    <<[slot |-> "items", fn |-> "add", arg |-> item],
      [slot |-> "total", fn |-> "add", arg |-> item]>>
RemoveItemUpdaters(id) ==
    <<[slot |-> "items", fn |-> "remove", arg |-> id],
      [slot |-> "total", fn |-> "remove", arg |-> id]>>

\* One queued updater run on the state s
RunUpdater(s, u) ==
    CASE u.slot = "items" /\ u.fn = "add"    -> ItemsAfterAdd(s.items, u.arg)
      [] u.slot = "items" /\ u.fn = "remove" -> ItemsAfterRemove(s.items, u.arg)
      [] u.slot = "total" /\ u.fn = "add"    -> TotalAfterAdd(s.total, u.arg)
      [] u.slot = "total" /\ u.fn = "remove" -> TotalAfterRemove(s.total, u.arg)

\* The render runs the queued updaters in order; the first exception ends
\* it
RECURSIVE RunUpdaters(_, _)
RunUpdaters(s, updaters) ==
    IF updaters = << >> THEN [state |-> s, error |-> NoError]
    ELSE LET u == Head(updaters)
             r == RunUpdater(s, u)
         IN  IF r.kind = "threw"
               THEN [state |-> s, error |-> <<r.msg>>]
               ELSE RunUpdaters([s EXCEPT ![u.slot] = r.value],
                                Tail(updaters))

\* A component calls addItem(item)
AddItem(item) ==
    /\ cartPc # "crashed"
    /\ cartCalls < MaxCartCalls
    /\ cartQueue' = cartQueue \o AddItemUpdaters(item)
    /\ cartCalls' = cartCalls + 1
    /\ cartPc' = "dirty"
    /\ UNCHANGED <<cart, cartError>>
    /\ CartFrame

\* A component calls removeItem(id)
RemoveItem(id) ==
    /\ cartPc # "crashed"
    /\ cartCalls < MaxCartCalls
    /\ cartQueue' = cartQueue \o RemoveItemUpdaters(id)
    /\ cartCalls' = cartCalls + 1
    /\ cartPc' = "dirty"
    /\ UNCHANGED <<cart, cartError>>
    /\ CartFrame

\* The component that uses the hook re-renders: useState runs the queued
\* updaters; an exception makes the render fail and React removes the
\* component
CartRender ==
    /\ cartPc = "dirty"
    /\ LET r == RunUpdaters(cart, cartQueue)
       IN  IF r.error = NoError
             THEN /\ cart' = r.state
                  /\ cartPc' = "idle"
                  /\ UNCHANGED cartError
             ELSE /\ cartError' = r.error
                  /\ cartPc' = "crashed"
                  /\ UNCHANGED cart
    /\ cartQueue' = << >>
    /\ UNCHANGED cartCalls
    /\ CartFrame

CartNext ==
    \/ \E item \in CartItems : AddItem(item)
    \/ \E id \in CartIds : RemoveItem(id)
    \/ CartRender

----------------------------------------------------------------------------
\* Claims about the Cart group

RECURSIVE SumOfPrices(_)
SumOfPrices(list) ==
    IF list = << >> THEN 0 ELSE Head(list).price + SumOfPrices(Tail(list))

\* C27: no call of addItem or removeItem ends in an error, and in every
\* render total is the sum of the prices of the items in items
C27_TotalIsSumOfPrices ==
    /\ cartError = NoError
    /\ cartPc = "idle" => cart.total = SumOfPrices(cart.items)

\* An item was added, removeItem was called for it, and the render that
\* followed failed with the items and the total as they were
C27_Divergence ==
    /\ cartPc = "crashed"
    /\ cartError = <<"TypeError: prev.find is not a function">>
    /\ Len(cart.items) = 1
    /\ cart.total = cart.items[1].price

----------------------------------------------------------------------------
\* The Delayed group: the SearchResults that starts its search one second
\* after the query changed and guards setResults with an ignore flag
\*     useEffect(() => {
\*       let ignore = false;
\*       const search = () => {
\*         fetch(`/api/search?q=${query}`)
\*           .then(data => { if (!ignore) { setResults(data); } });
\*       };
\*       const timeoutId = setTimeout(search, 1000);
\*       return () => { ignore = true; clearTimeout(timeoutId); };
\*     }, [query]);

\* useState(''): the query of the first render
InitialQuery == ""

\* The actions of this group leave the other groups alone
DelayedFrame ==
    UNCHANGED <<effVars, redVars, treeVars, hookVars, clickVars,
                propsVars, eventVars, searchVars, guardVars, appVars,
                toggleVars, gameVars, chatVars, cartVars, refsVars>>

\* One run of the Effect: its closure (query, ignore), its timer and the
\* fetch its timer starts
NewRun(q) ==
    [query |-> q, ignore |-> FALSE, timer |-> "pending", fetch |-> "none",
     cleaned |-> FALSE]

\* (mutant) a cleanup that clears the timer but leaves ignore alone
CleanupClearsTimerOnly(run) ==
    [run EXCEPT !.timer = IF @ = "pending" THEN "cleared" ELSE @,
                !.cleaned = TRUE]

\* The cleanup function of a run: ignore = true; clearTimeout(timeoutId);
\* clearing a timer that has fired does nothing
CleanupRun(run) ==
    [run EXCEPT !.ignore = TRUE,
                !.timer = IF @ = "pending" THEN "cleared" ELSE @,
                !.cleaned = TRUE]

\* The runs after the cleanup of the last one, if there is one that has
\* not been cleaned up
CleanupLast(rs) ==
    IF rs # << >> /\ ~rs[Len(rs)].cleaned
        THEN [rs EXCEPT ![Len(rs)] = CleanupRun(@)]
        ELSE rs

\* SearchResults is added to the tree and renders for the first time
DelayedMount ==
    /\ dPc = "unmounted"
    /\ dMounts < MaxDelayedMounts
    /\ dQuery' = InitialQuery
    /\ dResults' = NoResults
    /\ dDeps' = << >>
    /\ dMounts' = dMounts + 1
    /\ dPc' = "rendered"
    /\ UNCHANGED <<dQueue, runs, setResultsCalls, dTyped>>
    /\ DelayedFrame

\* After the commit: on the first render, or when query differs from the
\* last run, the cleanup of the last run and then the Effect
DelayedEffect ==
    /\ dPc = "rendered"
    /\ IF dDeps = << >> \/ DepsChanged(dDeps, <<dQuery>>)
         THEN runs' = Append(CleanupLast(runs), NewRun(dQuery))
         ELSE UNCHANGED runs
    /\ dDeps' = <<dQuery>>
    /\ dPc' = IF dQueue = << >> THEN "idle" ELSE "dirty"
    /\ UNCHANGED <<dQuery, dResults, dQueue, setResultsCalls, dMounts,
                   dTyped>>
    /\ DelayedFrame

\* The user types: setQuery(q)
SetQuery(q) ==
    /\ dPc \in {"idle", "dirty"}
    /\ dTyped < MaxTyped
    /\ dQueue' = Append(dQueue, [slot |-> "query", value |-> q])
    /\ dTyped' = dTyped + 1
    /\ dPc' = "dirty"
    /\ UNCHANGED <<dQuery, dResults, dDeps, runs, setResultsCalls, dMounts>>
    /\ DelayedFrame

\* The last value queued for a slot, or the value of the last render
LastQueued(q, slot, old) ==
    LET mine == SelectSeq(q, LAMBDA u : u.slot = slot)
    IN  IF mine = << >> THEN old ELSE mine[Len(mine)].value

\* The component re-renders with the queued state
DelayedRender ==
    /\ dPc = "dirty"
    /\ dQuery' = LastQueued(dQueue, "query", dQuery)
    /\ dResults' = LastQueued(dQueue, "results", dResults)
    /\ dQueue' = << >>
    /\ dPc' = "rendered"
    /\ UNCHANGED <<dDeps, runs, setResultsCalls, dMounts, dTyped>>
    /\ DelayedFrame

\* The timer of run i fires: search() starts the fetch for the run's query
DelayedTimerFires(i) ==
    /\ runs[i].timer = "pending"
    /\ runs' = [runs EXCEPT ![i].timer = "fired", ![i].fetch = "pending"]
    /\ UNCHANGED <<dQuery, dResults, dQueue, dDeps, setResultsCalls, dPc,
                   dMounts, dTyped>>
    /\ DelayedFrame

\* The response to the fetch of run i arrives: the .then callback runs
DelayedResponse(i) ==
    /\ runs[i].fetch = "pending"
    /\ runs' = [runs EXCEPT ![i].fetch = "done"]
    /\ IF ~runs[i].ignore
         THEN /\ setResultsCalls' =
                    Append(setResultsCalls,
                           [run |-> i, data |-> ResponseFor(runs[i].query)])
              /\ dQueue' = Append(dQueue,
                              [slot |-> "results",
                               value |-> ResponseFor(runs[i].query)])
              /\ dPc' = IF dPc = "idle" THEN "dirty" ELSE dPc
         ELSE UNCHANGED <<setResultsCalls, dQueue, dPc>>
    /\ UNCHANGED <<dQuery, dResults, dDeps, dMounts, dTyped>>
    /\ DelayedFrame

\* SearchResults is removed: the cleanup of the last run, then its state
\* and queued updates are dropped
DelayedUnmount ==
    /\ dPc \in {"idle", "dirty"}
    /\ runs' = CleanupLast(runs)
    /\ dQuery' = InitialQuery
    /\ dResults' = NoResults
    /\ dQueue' = << >>
    /\ dDeps' = << >>
    /\ dPc' = "unmounted"
    /\ UNCHANGED <<setResultsCalls, dMounts, dTyped>>
    /\ DelayedFrame

DelayedNext ==
    \/ DelayedMount
    \/ DelayedEffect
    \/ \E q \in Queries : SetQuery(q)
    \/ DelayedRender
    \/ \E i \in DOMAIN runs : DelayedTimerFires(i)
    \/ \E i \in DOMAIN runs : DelayedResponse(i)
    \/ DelayedUnmount

----------------------------------------------------------------------------
\* Claims about the Delayed group

\* setResults is called in this step
SetResultsCalled == setResultsCalls' # setResultsCalls

----------------------------------------------------------------------------
\* The Refs group: a list whose items register their DOM nodes through a
\* ref callback
\*     const itemRefs = useRef(new Map());
\*     <li key={item.id} ref={getRefCallback(item.id)}>

ItemIds == {1, 2, 3}

\* null, passed to a ref callback when its element is removed
NoNode == 0

\* new Map()
EmptyMap == {}

\* A Map as its set of entries <<key, value>>
MapSet(m, k, v) == {p \in m : p[1] # k} \cup {<<k, v>>}
MapDelete(m, k) == {p \in m : p[1] # k}
MapKeys(m)      == {p[1] : p \in m}
MapGet(m, k)    == IF k \in MapKeys(m)
                     THEN (CHOOSE p \in m : p[1] = k)[2]
                     ELSE NoNode

\* The actions of this group leave the other groups alone
RefsFrame ==
    UNCHANGED <<effVars, redVars, treeVars, hookVars, clickVars,
                propsVars, eventVars, searchVars, guardVars, appVars,
                toggleVars, gameVars, chatVars, cartVars, delayedVars>>

\* (mutant) a ref callback that ignores null
RefCallbackKeepsNode(m, id, node) ==
    IF node # NoNode THEN MapSet(m, id, node) ELSE m

\* getRefCallback(id)(node): itemRefs.current afterwards
RefCallback(m, id, node) ==
    IF node # NoNode THEN MapSet(m, id, node) ELSE MapDelete(m, id)

\* The ids of a set, in ascending order
RECURSIVE InOrder(_)
InOrder(S) ==
    IF S = {} THEN << >>
    ELSE LET least == CHOOSE x \in S : \A y \in S : x <= y
         IN  <<least>> \o InOrder(S \ {least})

\* React calls the ref callbacks of the ids in order, each with null
RECURSIVE Detach(_, _)
Detach(m, ids) ==
    IF ids = << >> THEN m
    ELSE Detach(RefCallback(m, Head(ids), NoNode), Tail(ids))

\* React calls the ref callbacks of the ids in order, each with its node
RECURSIVE Attach(_, _, _)
Attach(m, ids, nodes) ==
    IF ids = << >> THEN m
    ELSE Attach(RefCallback(m, Head(ids), nodes[Head(ids)]), Tail(ids),
                nodes)

\* The list renders with the items next: the <li> of an item that left is
\* removed and its callback called with null, an item that is new gets a
\* new <li> and its callback is called with that node.  getRefCallback
\* returns a new function in every render, so for the items that stay
\* React either leaves the ref alone or (reattach) calls the function of
\* the last render with null and the new one with the node.
ListRender(next, reattach) ==
    /\ listRenders < MaxListRenders
    /\ LET gone  == listItems \ next
           new   == next \ listItems
           kept  == listItems \cap next
           order == InOrder(new)
           nodes == [id \in ItemIds |->
                       IF id \in new
                         THEN nextNode - 1 +
                              Cardinality({x \in new : x <= id})
                         ELSE IF id \in kept THEN domNodes[id] ELSE NoNode]
           again == IF reattach THEN kept ELSE {}
       IN  /\ domNodes' = nodes
           /\ nextNode' = nextNode + Cardinality(new)
           /\ itemRefs' = Attach(Detach(itemRefs, InOrder(gone \cup again)),
                                 InOrder(new \cup again), nodes)
    /\ listItems' = next
    /\ listRenders' = listRenders + 1
    /\ UNCHANGED scrolled
    /\ RefsFrame

\* scrollToItem(id): const node = itemRefs.current.get(id);
\*                   if (node) node.scrollIntoView(...)
ScrollToItem(id) ==
    /\ listRenders > 0
    /\ Len(scrolled) < MaxScrolls
    /\ LET node == MapGet(itemRefs, id)
       IN  IF node # NoNode
             THEN scrolled' = Append(scrolled, [id |-> id, node |-> node])
             ELSE UNCHANGED scrolled
    /\ UNCHANGED <<listItems, domNodes, itemRefs, nextNode, listRenders>>
    /\ RefsFrame

RefsNext ==
    \/ \E next \in SUBSET ItemIds, reattach \in BOOLEAN :
          ListRender(next, reattach)
    \/ \E id \in ItemIds : ScrollToItem(id)

----------------------------------------------------------------------------
\* Claims about the Refs group

\* C29: after every commit the keys of itemRefs.current are exactly the
\* ids of the mounted items, each key has one entry, which is the <li> of
\* that item, and scrollToItem(id) scrolls a node only for a mounted item,
\* namely that item's node
C29_MapMatchesMounted ==
    /\ [](/\ MapKeys(itemRefs) = listItems
          /\ Cardinality(itemRefs) = Cardinality(listItems)
          /\ \A id \in listItems :
                /\ domNodes[id] # NoNode
                /\ MapGet(itemRefs, id) = domNodes[id])
    /\ [][scrolled' # scrolled =>
            LET s == scrolled'[Len(scrolled')]
            IN  /\ s.id \in listItems
                /\ s.node = domNodes[s.id]]_vars

\* After three renders item 1 is the only item, other <li> nodes were
\* created before its own, the Map holds item 1 alone with its node, and
\* scrollToItem(1) has scrolled that node
C29_Witness ==
    /\ listRenders = 3
    /\ listItems = {1}
    /\ itemRefs = {<<1, domNodes[1]>>}
    /\ domNodes[1] > 1
    /\ nextNode > 3
    /\ scrolled = <<[id |-> 1, node |-> domNodes[1]]>>

----------------------------------------------------------------------------
\* The specifications

\* One component, not yet mounted, in development or in production
EffectInit ==
    /\ comp \in Components
    /\ strictMode \in BOOLEAN
    /\ pc = "unmounted"
    /\ roomId = NoRoom
    /\ st = InitialState
    /\ queued = InitialState
    /\ dirty = FALSE
    /\ effect = NoEffect
    /\ resources = NoResources
    /\ nextId = 1
    /\ log = << >>
    /\ renders = 0
    /\ mounts = 0
    /\ heap = << >>
    /\ stateRef = 0
    /\ reducer = "tasksReducer"
    /\ queue = << >>
    /\ outcome = [kind |-> "none"]
    /\ calls = 0
    /\ variant = "App"
    /\ want = Nothing
    /\ fiber = NoFiber
    /\ shown = Blank
    /\ typedFor = NoId
    /\ tpc = "idle"
    /\ tsteps = 0
    /\ hooks = << >>
    /\ objects = << >>
    /\ snapshot = NoSnapshot
    /\ pendingCount = NoUpdate
    /\ console = << >>
    /\ hrenders = 0
    /\ layout = "Toolbar"
    /\ event = NoEvent
    /\ alerts = << >>
    /\ events = 0
    /\ avatar = "2_MiddleComponent"
    /\ user = [name |-> "Lin Lanying", imageId |-> "1bX5QH6"]
    /\ size = <<100>>
    /\ props = NoProps
    /\ output = NoOutput
    /\ stage = "start"
    /\ page = "Page"
    /\ pageProps = NoPageProps
    /\ closures = << >>
    /\ fnRef = NoFnRef
    /\ returned = NoFn
    /\ mounting = FALSE
    /\ ownEffect = [deps |-> << >>, subscribed |-> NoFn]
    /\ visits = << >>
    /\ prenders = 0
    /\ ppc = "unmounted"
    /\ query = NoQuery
    /\ results = NoResults
    /\ isLoading = FALSE
    /\ fetches = << >>
    /\ searchDeps = << >>
    /\ srenders = 0
    /\ spc = "unmounted"
    /\ apStrict = FALSE
    /\ apPc = "unmounted"
    /\ apRoomId = NoRoom
    /\ apPrevRoom = NoRoom
    /\ didRun = NoRef
    /\ connections = << >>
    /\ apCleanup = NoCleanup
    /\ apDeps = << >>
    /\ apMounts = 0
    /\ apRenders = 0
    /\ placement = "initializeApp"
    /\ appStrict = FALSE
    /\ appInitialized = FALSE
    /\ initLog = << >>
    /\ initCalls = 0
    /\ appMounts = 0
    /\ appPc = "notLoaded"
    /\ toggle = "handler"
    /\ isOn = FALSE
    /\ tPending = NoUpdate
    /\ onChange = NoOnChange
    /\ tDeps = << >>
    /\ notified = << >>
    /\ tMounting = FALSE
    /\ tRenders = 0
    /\ tClicks = 0
    /\ tPc = "unmounted"
    /\ hGame = InitialGame
    /\ eGame = InitialEffectGame
    /\ hQueue = << >>
    /\ eQueue = << >>
    /\ eDeps = << >>
    /\ hAlerts = << >>
    /\ eAlerts = << >>
    /\ hThrown = << >>
    /\ eThrown = << >>
    /\ placed = 0
    /\ ePc = "rendered"
    /\ eRenders = 0
    /\ localStorage = [k \in DraftKeys |-> << >>]
    /\ recipient = NoRecipient
    /\ draft = ""
    /\ cPending = << >>
    /\ cDeps = << >>
    /\ typed = [r \in Recipients |-> << >>]
    /\ cPc = "unmounted"
    /\ cSteps = 0
    /\ cart = [items |-> << >>, total |-> 0]
    /\ cartQueue = << >>
    /\ cartError = NoError
    /\ cartCalls = 0
    /\ cartPc = "idle"
    /\ dQuery = InitialQuery
    /\ dResults = NoResults
    /\ dQueue = << >>
    /\ dDeps = << >>
    /\ runs = << >>
    /\ setResultsCalls = << >>
    /\ dPc = "unmounted"
    /\ dMounts = 0
    /\ dTyped = 0
    /\ listItems = {}
    /\ domNodes = [id \in ItemIds |-> NoNode]
    /\ itemRefs = EmptyMap
    /\ nextNode = 1
    /\ scrolled = << >>
    /\ listRenders = 0

EffectSpec == EffectInit /\ [][EffNext]_vars

\* useReducer(reducer, initialTasks) with no task yet
ReducerInit ==
    /\ heap = << << >> >>
    /\ stateRef = 1
    /\ reducer \in Reducers
    /\ queue = << >>
    /\ outcome = [kind |-> "none"]
    /\ calls = 0
    /\ comp = "ChatRoom"
    /\ strictMode = FALSE
    /\ pc = "unmounted"
    /\ roomId = NoRoom
    /\ st = InitialState
    /\ queued = InitialState
    /\ dirty = FALSE
    /\ effect = NoEffect
    /\ resources = NoResources
    /\ nextId = 1
    /\ log = << >>
    /\ renders = 0
    /\ mounts = 0
    /\ variant = "App"
    /\ want = Nothing
    /\ fiber = NoFiber
    /\ shown = Blank
    /\ typedFor = NoId
    /\ tpc = "idle"
    /\ tsteps = 0
    /\ hooks = << >>
    /\ objects = << >>
    /\ snapshot = NoSnapshot
    /\ pendingCount = NoUpdate
    /\ console = << >>
    /\ hrenders = 0
    /\ layout = "Toolbar"
    /\ event = NoEvent
    /\ alerts = << >>
    /\ events = 0
    /\ avatar = "2_MiddleComponent"
    /\ user = [name |-> "Lin Lanying", imageId |-> "1bX5QH6"]
    /\ size = <<100>>
    /\ props = NoProps
    /\ output = NoOutput
    /\ stage = "start"
    /\ page = "Page"
    /\ pageProps = NoPageProps
    /\ closures = << >>
    /\ fnRef = NoFnRef
    /\ returned = NoFn
    /\ mounting = FALSE
    /\ ownEffect = [deps |-> << >>, subscribed |-> NoFn]
    /\ visits = << >>
    /\ prenders = 0
    /\ ppc = "unmounted"
    /\ query = NoQuery
    /\ results = NoResults
    /\ isLoading = FALSE
    /\ fetches = << >>
    /\ searchDeps = << >>
    /\ srenders = 0
    /\ spc = "unmounted"
    /\ apStrict = FALSE
    /\ apPc = "unmounted"
    /\ apRoomId = NoRoom
    /\ apPrevRoom = NoRoom
    /\ didRun = NoRef
    /\ connections = << >>
    /\ apCleanup = NoCleanup
    /\ apDeps = << >>
    /\ apMounts = 0
    /\ apRenders = 0
    /\ placement = "initializeApp"
    /\ appStrict = FALSE
    /\ appInitialized = FALSE
    /\ initLog = << >>
    /\ initCalls = 0
    /\ appMounts = 0
    /\ appPc = "notLoaded"
    /\ toggle = "handler"
    /\ isOn = FALSE
    /\ tPending = NoUpdate
    /\ onChange = NoOnChange
    /\ tDeps = << >>
    /\ notified = << >>
    /\ tMounting = FALSE
    /\ tRenders = 0
    /\ tClicks = 0
    /\ tPc = "unmounted"
    /\ hGame = InitialGame
    /\ eGame = InitialEffectGame
    /\ hQueue = << >>
    /\ eQueue = << >>
    /\ eDeps = << >>
    /\ hAlerts = << >>
    /\ eAlerts = << >>
    /\ hThrown = << >>
    /\ eThrown = << >>
    /\ placed = 0
    /\ ePc = "rendered"
    /\ eRenders = 0
    /\ localStorage = [k \in DraftKeys |-> << >>]
    /\ recipient = NoRecipient
    /\ draft = ""
    /\ cPending = << >>
    /\ cDeps = << >>
    /\ typed = [r \in Recipients |-> << >>]
    /\ cPc = "unmounted"
    /\ cSteps = 0
    /\ cart = [items |-> << >>, total |-> 0]
    /\ cartQueue = << >>
    /\ cartError = NoError
    /\ cartCalls = 0
    /\ cartPc = "idle"
    /\ dQuery = InitialQuery
    /\ dResults = NoResults
    /\ dQueue = << >>
    /\ dDeps = << >>
    /\ runs = << >>
    /\ setResultsCalls = << >>
    /\ dPc = "unmounted"
    /\ dMounts = 0
    /\ dTyped = 0
    /\ listItems = {}
    /\ domNodes = [id \in ItemIds |-> NoNode]
    /\ itemRefs = EmptyMap
    /\ nextNode = 1
    /\ scrolled = << >>
    /\ listRenders = 0

ReducerSpec == ReducerInit /\ [][RedNext]_vars

\* A parent not yet rendered: nothing at the position
TreeInit ==
    /\ variant \in Variants
    /\ want = Nothing
    /\ fiber = NoFiber
    /\ shown = Blank
    /\ typedFor = NoId
    /\ tpc = "idle"
    /\ tsteps = 0
    /\ comp = "ChatRoom"
    /\ strictMode = FALSE
    /\ pc = "unmounted"
    /\ roomId = NoRoom
    /\ st = InitialState
    /\ queued = InitialState
    /\ dirty = FALSE
    /\ effect = NoEffect
    /\ resources = NoResources
    /\ nextId = 1
    /\ log = << >>
    /\ renders = 0
    /\ mounts = 0
    /\ heap = << >>
    /\ stateRef = 0
    /\ reducer = "tasksReducer"
    /\ queue = << >>
    /\ outcome = [kind |-> "none"]
    /\ calls = 0
    /\ hooks = << >>
    /\ objects = << >>
    /\ snapshot = NoSnapshot
    /\ pendingCount = NoUpdate
    /\ console = << >>
    /\ hrenders = 0
    /\ layout = "Toolbar"
    /\ event = NoEvent
    /\ alerts = << >>
    /\ events = 0
    /\ avatar = "2_MiddleComponent"
    /\ user = [name |-> "Lin Lanying", imageId |-> "1bX5QH6"]
    /\ size = <<100>>
    /\ props = NoProps
    /\ output = NoOutput
    /\ stage = "start"
    /\ page = "Page"
    /\ pageProps = NoPageProps
    /\ closures = << >>
    /\ fnRef = NoFnRef
    /\ returned = NoFn
    /\ mounting = FALSE
    /\ ownEffect = [deps |-> << >>, subscribed |-> NoFn]
    /\ visits = << >>
    /\ prenders = 0
    /\ ppc = "unmounted"
    /\ query = NoQuery
    /\ results = NoResults
    /\ isLoading = FALSE
    /\ fetches = << >>
    /\ searchDeps = << >>
    /\ srenders = 0
    /\ spc = "unmounted"
    /\ apStrict = FALSE
    /\ apPc = "unmounted"
    /\ apRoomId = NoRoom
    /\ apPrevRoom = NoRoom
    /\ didRun = NoRef
    /\ connections = << >>
    /\ apCleanup = NoCleanup
    /\ apDeps = << >>
    /\ apMounts = 0
    /\ apRenders = 0
    /\ placement = "initializeApp"
    /\ appStrict = FALSE
    /\ appInitialized = FALSE
    /\ initLog = << >>
    /\ initCalls = 0
    /\ appMounts = 0
    /\ appPc = "notLoaded"
    /\ toggle = "handler"
    /\ isOn = FALSE
    /\ tPending = NoUpdate
    /\ onChange = NoOnChange
    /\ tDeps = << >>
    /\ notified = << >>
    /\ tMounting = FALSE
    /\ tRenders = 0
    /\ tClicks = 0
    /\ tPc = "unmounted"
    /\ hGame = InitialGame
    /\ eGame = InitialEffectGame
    /\ hQueue = << >>
    /\ eQueue = << >>
    /\ eDeps = << >>
    /\ hAlerts = << >>
    /\ eAlerts = << >>
    /\ hThrown = << >>
    /\ eThrown = << >>
    /\ placed = 0
    /\ ePc = "rendered"
    /\ eRenders = 0
    /\ localStorage = [k \in DraftKeys |-> << >>]
    /\ recipient = NoRecipient
    /\ draft = ""
    /\ cPending = << >>
    /\ cDeps = << >>
    /\ typed = [r \in Recipients |-> << >>]
    /\ cPc = "unmounted"
    /\ cSteps = 0
    /\ cart = [items |-> << >>, total |-> 0]
    /\ cartQueue = << >>
    /\ cartError = NoError
    /\ cartCalls = 0
    /\ cartPc = "idle"
    /\ dQuery = InitialQuery
    /\ dResults = NoResults
    /\ dQueue = << >>
    /\ dDeps = << >>
    /\ runs = << >>
    /\ setResultsCalls = << >>
    /\ dPc = "unmounted"
    /\ dMounts = 0
    /\ dTyped = 0
    /\ listItems = {}
    /\ domNodes = [id \in ItemIds |-> NoNode]
    /\ itemRefs = EmptyMap
    /\ nextNode = 1
    /\ scrolled = << >>
    /\ listRenders = 0

TreeSpec == TreeInit /\ [][TreeNext]_vars

\* The component with count and countRef, before its first render
HookInit ==
    /\ hooks = << >>
    /\ objects = << >>
    /\ snapshot = NoSnapshot
    /\ pendingCount = NoUpdate
    /\ console = << >>
    /\ hrenders = 0
    /\ comp = "ChatRoom"
    /\ strictMode = FALSE
    /\ pc = "unmounted"
    /\ roomId = NoRoom
    /\ st = InitialState
    /\ queued = InitialState
    /\ dirty = FALSE
    /\ effect = NoEffect
    /\ resources = NoResources
    /\ nextId = 1
    /\ log = << >>
    /\ renders = 0
    /\ mounts = 0
    /\ heap = << >>
    /\ stateRef = 0
    /\ reducer = "tasksReducer"
    /\ queue = << >>
    /\ outcome = [kind |-> "none"]
    /\ calls = 0
    /\ variant = "App"
    /\ want = Nothing
    /\ fiber = NoFiber
    /\ shown = Blank
    /\ typedFor = NoId
    /\ tpc = "idle"
    /\ tsteps = 0
    /\ layout = "Toolbar"
    /\ event = NoEvent
    /\ alerts = << >>
    /\ events = 0
    /\ avatar = "2_MiddleComponent"
    /\ user = [name |-> "Lin Lanying", imageId |-> "1bX5QH6"]
    /\ size = <<100>>
    /\ props = NoProps
    /\ output = NoOutput
    /\ stage = "start"
    /\ page = "Page"
    /\ pageProps = NoPageProps
    /\ closures = << >>
    /\ fnRef = NoFnRef
    /\ returned = NoFn
    /\ mounting = FALSE
    /\ ownEffect = [deps |-> << >>, subscribed |-> NoFn]
    /\ visits = << >>
    /\ prenders = 0
    /\ ppc = "unmounted"
    /\ query = NoQuery
    /\ results = NoResults
    /\ isLoading = FALSE
    /\ fetches = << >>
    /\ searchDeps = << >>
    /\ srenders = 0
    /\ spc = "unmounted"
    /\ apStrict = FALSE
    /\ apPc = "unmounted"
    /\ apRoomId = NoRoom
    /\ apPrevRoom = NoRoom
    /\ didRun = NoRef
    /\ connections = << >>
    /\ apCleanup = NoCleanup
    /\ apDeps = << >>
    /\ apMounts = 0
    /\ apRenders = 0
    /\ placement = "initializeApp"
    /\ appStrict = FALSE
    /\ appInitialized = FALSE
    /\ initLog = << >>
    /\ initCalls = 0
    /\ appMounts = 0
    /\ appPc = "notLoaded"
    /\ toggle = "handler"
    /\ isOn = FALSE
    /\ tPending = NoUpdate
    /\ onChange = NoOnChange
    /\ tDeps = << >>
    /\ notified = << >>
    /\ tMounting = FALSE
    /\ tRenders = 0
    /\ tClicks = 0
    /\ tPc = "unmounted"
    /\ hGame = InitialGame
    /\ eGame = InitialEffectGame
    /\ hQueue = << >>
    /\ eQueue = << >>
    /\ eDeps = << >>
    /\ hAlerts = << >>
    /\ eAlerts = << >>
    /\ hThrown = << >>
    /\ eThrown = << >>
    /\ placed = 0
    /\ ePc = "rendered"
    /\ eRenders = 0
    /\ localStorage = [k \in DraftKeys |-> << >>]
    /\ recipient = NoRecipient
    /\ draft = ""
    /\ cPending = << >>
    /\ cDeps = << >>
    /\ typed = [r \in Recipients |-> << >>]
    /\ cPc = "unmounted"
    /\ cSteps = 0
    /\ cart = [items |-> << >>, total |-> 0]
    /\ cartQueue = << >>
    /\ cartError = NoError
    /\ cartCalls = 0
    /\ cartPc = "idle"
    /\ dQuery = InitialQuery
    /\ dResults = NoResults
    /\ dQueue = << >>
    /\ dDeps = << >>
    /\ runs = << >>
    /\ setResultsCalls = << >>
    /\ dPc = "unmounted"
    /\ dMounts = 0
    /\ dTyped = 0
    /\ listItems = {}
    /\ domNodes = [id \in ItemIds |-> NoNode]
    /\ itemRefs = EmptyMap
    /\ nextNode = 1
    /\ scrolled = << >>
    /\ listRenders = 0

HookSpec == HookInit /\ [][HookNext]_vars

\* One of the components on the screen, nothing clicked yet
ClickInit ==
    /\ layout \in Layouts
    /\ event = NoEvent
    /\ alerts = << >>
    /\ events = 0
    /\ comp = "ChatRoom"
    /\ strictMode = FALSE
    /\ pc = "unmounted"
    /\ roomId = NoRoom
    /\ st = InitialState
    /\ queued = InitialState
    /\ dirty = FALSE
    /\ effect = NoEffect
    /\ resources = NoResources
    /\ nextId = 1
    /\ log = << >>
    /\ renders = 0
    /\ mounts = 0
    /\ heap = << >>
    /\ stateRef = 0
    /\ reducer = "tasksReducer"
    /\ queue = << >>
    /\ outcome = [kind |-> "none"]
    /\ calls = 0
    /\ variant = "App"
    /\ want = Nothing
    /\ fiber = NoFiber
    /\ shown = Blank
    /\ typedFor = NoId
    /\ tpc = "idle"
    /\ tsteps = 0
    /\ hooks = << >>
    /\ objects = << >>
    /\ snapshot = NoSnapshot
    /\ pendingCount = NoUpdate
    /\ console = << >>
    /\ hrenders = 0
    /\ avatar = "2_MiddleComponent"
    /\ user = [name |-> "Lin Lanying", imageId |-> "1bX5QH6"]
    /\ size = <<100>>
    /\ props = NoProps
    /\ output = NoOutput
    /\ stage = "start"
    /\ page = "Page"
    /\ pageProps = NoPageProps
    /\ closures = << >>
    /\ fnRef = NoFnRef
    /\ returned = NoFn
    /\ mounting = FALSE
    /\ ownEffect = [deps |-> << >>, subscribed |-> NoFn]
    /\ visits = << >>
    /\ prenders = 0
    /\ ppc = "unmounted"
    /\ query = NoQuery
    /\ results = NoResults
    /\ isLoading = FALSE
    /\ fetches = << >>
    /\ searchDeps = << >>
    /\ srenders = 0
    /\ spc = "unmounted"
    /\ apStrict = FALSE
    /\ apPc = "unmounted"
    /\ apRoomId = NoRoom
    /\ apPrevRoom = NoRoom
    /\ didRun = NoRef
    /\ connections = << >>
    /\ apCleanup = NoCleanup
    /\ apDeps = << >>
    /\ apMounts = 0
    /\ apRenders = 0
    /\ placement = "initializeApp"
    /\ appStrict = FALSE
    /\ appInitialized = FALSE
    /\ initLog = << >>
    /\ initCalls = 0
    /\ appMounts = 0
    /\ appPc = "notLoaded"
    /\ toggle = "handler"
    /\ isOn = FALSE
    /\ tPending = NoUpdate
    /\ onChange = NoOnChange
    /\ tDeps = << >>
    /\ notified = << >>
    /\ tMounting = FALSE
    /\ tRenders = 0
    /\ tClicks = 0
    /\ tPc = "unmounted"
    /\ hGame = InitialGame
    /\ eGame = InitialEffectGame
    /\ hQueue = << >>
    /\ eQueue = << >>
    /\ eDeps = << >>
    /\ hAlerts = << >>
    /\ eAlerts = << >>
    /\ hThrown = << >>
    /\ eThrown = << >>
    /\ placed = 0
    /\ ePc = "rendered"
    /\ eRenders = 0
    /\ localStorage = [k \in DraftKeys |-> << >>]
    /\ recipient = NoRecipient
    /\ draft = ""
    /\ cPending = << >>
    /\ cDeps = << >>
    /\ typed = [r \in Recipients |-> << >>]
    /\ cPc = "unmounted"
    /\ cSteps = 0
    /\ cart = [items |-> << >>, total |-> 0]
    /\ cartQueue = << >>
    /\ cartError = NoError
    /\ cartCalls = 0
    /\ cartPc = "idle"
    /\ dQuery = InitialQuery
    /\ dResults = NoResults
    /\ dQueue = << >>
    /\ dDeps = << >>
    /\ runs = << >>
    /\ setResultsCalls = << >>
    /\ dPc = "unmounted"
    /\ dMounts = 0
    /\ dTyped = 0
    /\ listItems = {}
    /\ domNodes = [id \in ItemIds |-> NoNode]
    /\ itemRefs = EmptyMap
    /\ nextNode = 1
    /\ scrolled = << >>
    /\ listRenders = 0

ClickSpec == ClickInit /\ [][ClickNext]_vars

\* ParentComponent about to render, with its user and the size it passes
PropsInit ==
    /\ avatar \in Avatars
    /\ user \in Users
    /\ size \in Sizes
    /\ props = NoProps
    /\ output = NoOutput
    /\ stage = "start"
    /\ comp = "ChatRoom"
    /\ strictMode = FALSE
    /\ pc = "unmounted"
    /\ roomId = NoRoom
    /\ st = InitialState
    /\ queued = InitialState
    /\ dirty = FALSE
    /\ effect = NoEffect
    /\ resources = NoResources
    /\ nextId = 1
    /\ log = << >>
    /\ renders = 0
    /\ mounts = 0
    /\ heap = << >>
    /\ stateRef = 0
    /\ reducer = "tasksReducer"
    /\ queue = << >>
    /\ outcome = [kind |-> "none"]
    /\ calls = 0
    /\ variant = "App"
    /\ want = Nothing
    /\ fiber = NoFiber
    /\ shown = Blank
    /\ typedFor = NoId
    /\ tpc = "idle"
    /\ tsteps = 0
    /\ hooks = << >>
    /\ objects = << >>
    /\ snapshot = NoSnapshot
    /\ pendingCount = NoUpdate
    /\ console = << >>
    /\ hrenders = 0
    /\ layout = "Toolbar"
    /\ event = NoEvent
    /\ alerts = << >>
    /\ events = 0
    /\ page = "Page"
    /\ pageProps = NoPageProps
    /\ closures = << >>
    /\ fnRef = NoFnRef
    /\ returned = NoFn
    /\ mounting = FALSE
    /\ ownEffect = [deps |-> << >>, subscribed |-> NoFn]
    /\ visits = << >>
    /\ prenders = 0
    /\ ppc = "unmounted"
    /\ query = NoQuery
    /\ results = NoResults
    /\ isLoading = FALSE
    /\ fetches = << >>
    /\ searchDeps = << >>
    /\ srenders = 0
    /\ spc = "unmounted"
    /\ apStrict = FALSE
    /\ apPc = "unmounted"
    /\ apRoomId = NoRoom
    /\ apPrevRoom = NoRoom
    /\ didRun = NoRef
    /\ connections = << >>
    /\ apCleanup = NoCleanup
    /\ apDeps = << >>
    /\ apMounts = 0
    /\ apRenders = 0
    /\ placement = "initializeApp"
    /\ appStrict = FALSE
    /\ appInitialized = FALSE
    /\ initLog = << >>
    /\ initCalls = 0
    /\ appMounts = 0
    /\ appPc = "notLoaded"
    /\ toggle = "handler"
    /\ isOn = FALSE
    /\ tPending = NoUpdate
    /\ onChange = NoOnChange
    /\ tDeps = << >>
    /\ notified = << >>
    /\ tMounting = FALSE
    /\ tRenders = 0
    /\ tClicks = 0
    /\ tPc = "unmounted"
    /\ hGame = InitialGame
    /\ eGame = InitialEffectGame
    /\ hQueue = << >>
    /\ eQueue = << >>
    /\ eDeps = << >>
    /\ hAlerts = << >>
    /\ eAlerts = << >>
    /\ hThrown = << >>
    /\ eThrown = << >>
    /\ placed = 0
    /\ ePc = "rendered"
    /\ eRenders = 0
    /\ localStorage = [k \in DraftKeys |-> << >>]
    /\ recipient = NoRecipient
    /\ draft = ""
    /\ cPending = << >>
    /\ cDeps = << >>
    /\ typed = [r \in Recipients |-> << >>]
    /\ cPc = "unmounted"
    /\ cSteps = 0
    /\ cart = [items |-> << >>, total |-> 0]
    /\ cartQueue = << >>
    /\ cartError = NoError
    /\ cartCalls = 0
    /\ cartPc = "idle"
    /\ dQuery = InitialQuery
    /\ dResults = NoResults
    /\ dQueue = << >>
    /\ dDeps = << >>
    /\ runs = << >>
    /\ setResultsCalls = << >>
    /\ dPc = "unmounted"
    /\ dMounts = 0
    /\ dTyped = 0
    /\ listItems = {}
    /\ domNodes = [id \in ItemIds |-> NoNode]
    /\ itemRefs = EmptyMap
    /\ nextNode = 1
    /\ scrolled = << >>
    /\ listRenders = 0

PropsSpec == PropsInit /\ [][PropsNext]_vars

\* Page or ChatRoom, not yet mounted
EventInit ==
    /\ page \in EventUsers
    /\ pageProps = NoPageProps
    /\ closures = << >>
    /\ fnRef = NoFnRef
    /\ returned = NoFn
    /\ mounting = FALSE
    /\ ownEffect = [deps |-> << >>, subscribed |-> NoFn]
    /\ visits = << >>
    /\ prenders = 0
    /\ ppc = "unmounted"
    /\ comp = "ChatRoom"
    /\ strictMode = FALSE
    /\ pc = "unmounted"
    /\ roomId = NoRoom
    /\ st = InitialState
    /\ queued = InitialState
    /\ dirty = FALSE
    /\ effect = NoEffect
    /\ resources = NoResources
    /\ nextId = 1
    /\ log = << >>
    /\ renders = 0
    /\ mounts = 0
    /\ heap = << >>
    /\ stateRef = 0
    /\ reducer = "tasksReducer"
    /\ queue = << >>
    /\ outcome = [kind |-> "none"]
    /\ calls = 0
    /\ variant = "App"
    /\ want = Nothing
    /\ fiber = NoFiber
    /\ shown = Blank
    /\ typedFor = NoId
    /\ tpc = "idle"
    /\ tsteps = 0
    /\ hooks = << >>
    /\ objects = << >>
    /\ snapshot = NoSnapshot
    /\ pendingCount = NoUpdate
    /\ console = << >>
    /\ hrenders = 0
    /\ layout = "Toolbar"
    /\ event = NoEvent
    /\ alerts = << >>
    /\ events = 0
    /\ avatar = "2_MiddleComponent"
    /\ user = [name |-> "Lin Lanying", imageId |-> "1bX5QH6"]
    /\ size = <<100>>
    /\ props = NoProps
    /\ output = NoOutput
    /\ stage = "start"
    /\ query = NoQuery
    /\ results = NoResults
    /\ isLoading = FALSE
    /\ fetches = << >>
    /\ searchDeps = << >>
    /\ srenders = 0
    /\ spc = "unmounted"
    /\ apStrict = FALSE
    /\ apPc = "unmounted"
    /\ apRoomId = NoRoom
    /\ apPrevRoom = NoRoom
    /\ didRun = NoRef
    /\ connections = << >>
    /\ apCleanup = NoCleanup
    /\ apDeps = << >>
    /\ apMounts = 0
    /\ apRenders = 0
    /\ placement = "initializeApp"
    /\ appStrict = FALSE
    /\ appInitialized = FALSE
    /\ initLog = << >>
    /\ initCalls = 0
    /\ appMounts = 0
    /\ appPc = "notLoaded"
    /\ toggle = "handler"
    /\ isOn = FALSE
    /\ tPending = NoUpdate
    /\ onChange = NoOnChange
    /\ tDeps = << >>
    /\ notified = << >>
    /\ tMounting = FALSE
    /\ tRenders = 0
    /\ tClicks = 0
    /\ tPc = "unmounted"
    /\ hGame = InitialGame
    /\ eGame = InitialEffectGame
    /\ hQueue = << >>
    /\ eQueue = << >>
    /\ eDeps = << >>
    /\ hAlerts = << >>
    /\ eAlerts = << >>
    /\ hThrown = << >>
    /\ eThrown = << >>
    /\ placed = 0
    /\ ePc = "rendered"
    /\ eRenders = 0
    /\ localStorage = [k \in DraftKeys |-> << >>]
    /\ recipient = NoRecipient
    /\ draft = ""
    /\ cPending = << >>
    /\ cDeps = << >>
    /\ typed = [r \in Recipients |-> << >>]
    /\ cPc = "unmounted"
    /\ cSteps = 0
    /\ cart = [items |-> << >>, total |-> 0]
    /\ cartQueue = << >>
    /\ cartError = NoError
    /\ cartCalls = 0
    /\ cartPc = "idle"
    /\ dQuery = InitialQuery
    /\ dResults = NoResults
    /\ dQueue = << >>
    /\ dDeps = << >>
    /\ runs = << >>
    /\ setResultsCalls = << >>
    /\ dPc = "unmounted"
    /\ dMounts = 0
    /\ dTyped = 0
    /\ listItems = {}
    /\ domNodes = [id \in ItemIds |-> NoNode]
    /\ itemRefs = EmptyMap
    /\ nextNode = 1
    /\ scrolled = << >>
    /\ listRenders = 0

EventSpec == EventInit /\ [][EventNext]_vars

\* SearchResults not yet mounted, no fetch started
SearchInit ==
    /\ query = NoQuery
    /\ results = NoResults
    /\ isLoading = FALSE
    /\ fetches = << >>
    /\ searchDeps = << >>
    /\ srenders = 0
    /\ spc = "unmounted"
    /\ comp = "ChatRoom"
    /\ strictMode = FALSE
    /\ pc = "unmounted"
    /\ roomId = NoRoom
    /\ st = InitialState
    /\ queued = InitialState
    /\ dirty = FALSE
    /\ effect = NoEffect
    /\ resources = NoResources
    /\ nextId = 1
    /\ log = << >>
    /\ renders = 0
    /\ mounts = 0
    /\ heap = << >>
    /\ stateRef = 0
    /\ reducer = "tasksReducer"
    /\ queue = << >>
    /\ outcome = [kind |-> "none"]
    /\ calls = 0
    /\ variant = "App"
    /\ want = Nothing
    /\ fiber = NoFiber
    /\ shown = Blank
    /\ typedFor = NoId
    /\ tpc = "idle"
    /\ tsteps = 0
    /\ hooks = << >>
    /\ objects = << >>
    /\ snapshot = NoSnapshot
    /\ pendingCount = NoUpdate
    /\ console = << >>
    /\ hrenders = 0
    /\ layout = "Toolbar"
    /\ event = NoEvent
    /\ alerts = << >>
    /\ events = 0
    /\ avatar = "2_MiddleComponent"
    /\ user = [name |-> "Lin Lanying", imageId |-> "1bX5QH6"]
    /\ size = <<100>>
    /\ props = NoProps
    /\ output = NoOutput
    /\ stage = "start"
    /\ page = "Page"
    /\ pageProps = NoPageProps
    /\ closures = << >>
    /\ fnRef = NoFnRef
    /\ returned = NoFn
    /\ mounting = FALSE
    /\ ownEffect = [deps |-> << >>, subscribed |-> NoFn]
    /\ visits = << >>
    /\ prenders = 0
    /\ ppc = "unmounted"
    /\ apStrict = FALSE
    /\ apPc = "unmounted"
    /\ apRoomId = NoRoom
    /\ apPrevRoom = NoRoom
    /\ didRun = NoRef
    /\ connections = << >>
    /\ apCleanup = NoCleanup
    /\ apDeps = << >>
    /\ apMounts = 0
    /\ apRenders = 0
    /\ placement = "initializeApp"
    /\ appStrict = FALSE
    /\ appInitialized = FALSE
    /\ initLog = << >>
    /\ initCalls = 0
    /\ appMounts = 0
    /\ appPc = "notLoaded"
    /\ toggle = "handler"
    /\ isOn = FALSE
    /\ tPending = NoUpdate
    /\ onChange = NoOnChange
    /\ tDeps = << >>
    /\ notified = << >>
    /\ tMounting = FALSE
    /\ tRenders = 0
    /\ tClicks = 0
    /\ tPc = "unmounted"
    /\ hGame = InitialGame
    /\ eGame = InitialEffectGame
    /\ hQueue = << >>
    /\ eQueue = << >>
    /\ eDeps = << >>
    /\ hAlerts = << >>
    /\ eAlerts = << >>
    /\ hThrown = << >>
    /\ eThrown = << >>
    /\ placed = 0
    /\ ePc = "rendered"
    /\ eRenders = 0
    /\ localStorage = [k \in DraftKeys |-> << >>]
    /\ recipient = NoRecipient
    /\ draft = ""
    /\ cPending = << >>
    /\ cDeps = << >>
    /\ typed = [r \in Recipients |-> << >>]
    /\ cPc = "unmounted"
    /\ cSteps = 0
    /\ cart = [items |-> << >>, total |-> 0]
    /\ cartQueue = << >>
    /\ cartError = NoError
    /\ cartCalls = 0
    /\ cartPc = "idle"
    /\ dQuery = InitialQuery
    /\ dResults = NoResults
    /\ dQueue = << >>
    /\ dDeps = << >>
    /\ runs = << >>
    /\ setResultsCalls = << >>
    /\ dPc = "unmounted"
    /\ dMounts = 0
    /\ dTyped = 0
    /\ listItems = {}
    /\ domNodes = [id \in ItemIds |-> NoNode]
    /\ itemRefs = EmptyMap
    /\ nextNode = 1
    /\ scrolled = << >>
    /\ listRenders = 0

SearchSpec == SearchInit /\ [][SearchNext]_vars

\* AntiPatternComponent not yet mounted, with or without Strict Mode
GuardInit ==
    /\ apStrict \in BOOLEAN
    /\ apPc = "unmounted"
    /\ apRoomId = NoRoom
    /\ apPrevRoom = NoRoom
    /\ didRun = NoRef
    /\ connections = << >>
    /\ apCleanup = NoCleanup
    /\ apDeps = << >>
    /\ apMounts = 0
    /\ apRenders = 0
    /\ comp = "ChatRoom"
    /\ strictMode = FALSE
    /\ pc = "unmounted"
    /\ roomId = NoRoom
    /\ st = InitialState
    /\ queued = InitialState
    /\ dirty = FALSE
    /\ effect = NoEffect
    /\ resources = NoResources
    /\ nextId = 1
    /\ log = << >>
    /\ renders = 0
    /\ mounts = 0
    /\ heap = << >>
    /\ stateRef = 0
    /\ reducer = "tasksReducer"
    /\ queue = << >>
    /\ outcome = [kind |-> "none"]
    /\ calls = 0
    /\ variant = "App"
    /\ want = Nothing
    /\ fiber = NoFiber
    /\ shown = Blank
    /\ typedFor = NoId
    /\ tpc = "idle"
    /\ tsteps = 0
    /\ hooks = << >>
    /\ objects = << >>
    /\ snapshot = NoSnapshot
    /\ pendingCount = NoUpdate
    /\ console = << >>
    /\ hrenders = 0
    /\ layout = "Toolbar"
    /\ event = NoEvent
    /\ alerts = << >>
    /\ events = 0
    /\ avatar = "2_MiddleComponent"
    /\ user = [name |-> "Lin Lanying", imageId |-> "1bX5QH6"]
    /\ size = <<100>>
    /\ props = NoProps
    /\ output = NoOutput
    /\ stage = "start"
    /\ page = "Page"
    /\ pageProps = NoPageProps
    /\ closures = << >>
    /\ fnRef = NoFnRef
    /\ returned = NoFn
    /\ mounting = FALSE
    /\ ownEffect = [deps |-> << >>, subscribed |-> NoFn]
    /\ visits = << >>
    /\ prenders = 0
    /\ ppc = "unmounted"
    /\ query = NoQuery
    /\ results = NoResults
    /\ isLoading = FALSE
    /\ fetches = << >>
    /\ searchDeps = << >>
    /\ srenders = 0
    /\ spc = "unmounted"
    /\ placement = "initializeApp"
    /\ appStrict = FALSE
    /\ appInitialized = FALSE
    /\ initLog = << >>
    /\ initCalls = 0
    /\ appMounts = 0
    /\ appPc = "notLoaded"
    /\ toggle = "handler"
    /\ isOn = FALSE
    /\ tPending = NoUpdate
    /\ onChange = NoOnChange
    /\ tDeps = << >>
    /\ notified = << >>
    /\ tMounting = FALSE
    /\ tRenders = 0
    /\ tClicks = 0
    /\ tPc = "unmounted"
    /\ hGame = InitialGame
    /\ eGame = InitialEffectGame
    /\ hQueue = << >>
    /\ eQueue = << >>
    /\ eDeps = << >>
    /\ hAlerts = << >>
    /\ eAlerts = << >>
    /\ hThrown = << >>
    /\ eThrown = << >>
    /\ placed = 0
    /\ ePc = "rendered"
    /\ eRenders = 0
    /\ localStorage = [k \in DraftKeys |-> << >>]
    /\ recipient = NoRecipient
    /\ draft = ""
    /\ cPending = << >>
    /\ cDeps = << >>
    /\ typed = [r \in Recipients |-> << >>]
    /\ cPc = "unmounted"
    /\ cSteps = 0
    /\ cart = [items |-> << >>, total |-> 0]
    /\ cartQueue = << >>
    /\ cartError = NoError
    /\ cartCalls = 0
    /\ cartPc = "idle"
    /\ dQuery = InitialQuery
    /\ dResults = NoResults
    /\ dQueue = << >>
    /\ dDeps = << >>
    /\ runs = << >>
    /\ setResultsCalls = << >>
    /\ dPc = "unmounted"
    /\ dMounts = 0
    /\ dTyped = 0
    /\ listItems = {}
    /\ domNodes = [id \in ItemIds |-> NoNode]
    /\ itemRefs = EmptyMap
    /\ nextNode = 1
    /\ scrolled = << >>
    /\ listRenders = 0

GuardSpec == GuardInit /\ [][GuardNext]_vars

\* the page not yet loaded; where the one-time logic lives and whether Strict Mode is on are chosen
AppInit ==
    /\ placement \in Placements
    /\ appStrict \in BOOLEAN
    /\ appInitialized = FALSE
    /\ initLog = << >>
    /\ initCalls = 0
    /\ appMounts = 0
    /\ appPc = "notLoaded"
    /\ comp = "ChatRoom"
    /\ strictMode = FALSE
    /\ pc = "unmounted"
    /\ roomId = NoRoom
    /\ st = InitialState
    /\ queued = InitialState
    /\ dirty = FALSE
    /\ effect = NoEffect
    /\ resources = NoResources
    /\ nextId = 1
    /\ log = << >>
    /\ renders = 0
    /\ mounts = 0
    /\ heap = << >>
    /\ stateRef = 0
    /\ reducer = "tasksReducer"
    /\ queue = << >>
    /\ outcome = [kind |-> "none"]
    /\ calls = 0
    /\ variant = "App"
    /\ want = Nothing
    /\ fiber = NoFiber
    /\ shown = Blank
    /\ typedFor = NoId
    /\ tpc = "idle"
    /\ tsteps = 0
    /\ hooks = << >>
    /\ objects = << >>
    /\ snapshot = NoSnapshot
    /\ pendingCount = NoUpdate
    /\ console = << >>
    /\ hrenders = 0
    /\ layout = "Toolbar"
    /\ event = NoEvent
    /\ alerts = << >>
    /\ events = 0
    /\ avatar = "2_MiddleComponent"
    /\ user = [name |-> "Lin Lanying", imageId |-> "1bX5QH6"]
    /\ size = <<100>>
    /\ props = NoProps
    /\ output = NoOutput
    /\ stage = "start"
    /\ page = "Page"
    /\ pageProps = NoPageProps
    /\ closures = << >>
    /\ fnRef = NoFnRef
    /\ returned = NoFn
    /\ mounting = FALSE
    /\ ownEffect = [deps |-> << >>, subscribed |-> NoFn]
    /\ visits = << >>
    /\ prenders = 0
    /\ ppc = "unmounted"
    /\ query = NoQuery
    /\ results = NoResults
    /\ isLoading = FALSE
    /\ fetches = << >>
    /\ searchDeps = << >>
    /\ srenders = 0
    /\ spc = "unmounted"
    /\ apStrict = FALSE
    /\ apPc = "unmounted"
    /\ apRoomId = NoRoom
    /\ apPrevRoom = NoRoom
    /\ didRun = NoRef
    /\ connections = << >>
    /\ apCleanup = NoCleanup
    /\ apDeps = << >>
    /\ apMounts = 0
    /\ apRenders = 0
    /\ toggle = "handler"
    /\ isOn = FALSE
    /\ tPending = NoUpdate
    /\ onChange = NoOnChange
    /\ tDeps = << >>
    /\ notified = << >>
    /\ tMounting = FALSE
    /\ tRenders = 0
    /\ tClicks = 0
    /\ tPc = "unmounted"
    /\ hGame = InitialGame
    /\ eGame = InitialEffectGame
    /\ hQueue = << >>
    /\ eQueue = << >>
    /\ eDeps = << >>
    /\ hAlerts = << >>
    /\ eAlerts = << >>
    /\ hThrown = << >>
    /\ eThrown = << >>
    /\ placed = 0
    /\ ePc = "rendered"
    /\ eRenders = 0
    /\ localStorage = [k \in DraftKeys |-> << >>]
    /\ recipient = NoRecipient
    /\ draft = ""
    /\ cPending = << >>
    /\ cDeps = << >>
    /\ typed = [r \in Recipients |-> << >>]
    /\ cPc = "unmounted"
    /\ cSteps = 0
    /\ cart = [items |-> << >>, total |-> 0]
    /\ cartQueue = << >>
    /\ cartError = NoError
    /\ cartCalls = 0
    /\ cartPc = "idle"
    /\ dQuery = InitialQuery
    /\ dResults = NoResults
    /\ dQueue = << >>
    /\ dDeps = << >>
    /\ runs = << >>
    /\ setResultsCalls = << >>
    /\ dPc = "unmounted"
    /\ dMounts = 0
    /\ dTyped = 0
    /\ listItems = {}
    /\ domNodes = [id \in ItemIds |-> NoNode]
    /\ itemRefs = EmptyMap
    /\ nextNode = 1
    /\ scrolled = << >>
    /\ listRenders = 0

AppSpec == AppInit /\ [][AppNext]_vars

\* Toggle not yet mounted, in one of its two versions
ToggleInit ==
    /\ toggle \in ToggleVersions
    /\ isOn = FALSE
    /\ tPending = NoUpdate
    /\ onChange = NoOnChange
    /\ tDeps = << >>
    /\ notified = << >>
    /\ tMounting = FALSE
    /\ tRenders = 0
    /\ tClicks = 0
    /\ tPc = "unmounted"
    /\ comp = "ChatRoom"
    /\ strictMode = FALSE
    /\ pc = "unmounted"
    /\ roomId = NoRoom
    /\ st = InitialState
    /\ queued = InitialState
    /\ dirty = FALSE
    /\ effect = NoEffect
    /\ resources = NoResources
    /\ nextId = 1
    /\ log = << >>
    /\ renders = 0
    /\ mounts = 0
    /\ heap = << >>
    /\ stateRef = 0
    /\ reducer = "tasksReducer"
    /\ queue = << >>
    /\ outcome = [kind |-> "none"]
    /\ calls = 0
    /\ variant = "App"
    /\ want = Nothing
    /\ fiber = NoFiber
    /\ shown = Blank
    /\ typedFor = NoId
    /\ tpc = "idle"
    /\ tsteps = 0
    /\ hooks = << >>
    /\ objects = << >>
    /\ snapshot = NoSnapshot
    /\ pendingCount = NoUpdate
    /\ console = << >>
    /\ hrenders = 0
    /\ layout = "Toolbar"
    /\ event = NoEvent
    /\ alerts = << >>
    /\ events = 0
    /\ avatar = "2_MiddleComponent"
    /\ user = [name |-> "Lin Lanying", imageId |-> "1bX5QH6"]
    /\ size = <<100>>
    /\ props = NoProps
    /\ output = NoOutput
    /\ stage = "start"
    /\ page = "Page"
    /\ pageProps = NoPageProps
    /\ closures = << >>
    /\ fnRef = NoFnRef
    /\ returned = NoFn
    /\ mounting = FALSE
    /\ ownEffect = [deps |-> << >>, subscribed |-> NoFn]
    /\ visits = << >>
    /\ prenders = 0
    /\ ppc = "unmounted"
    /\ query = NoQuery
    /\ results = NoResults
    /\ isLoading = FALSE
    /\ fetches = << >>
    /\ searchDeps = << >>
    /\ srenders = 0
    /\ spc = "unmounted"
    /\ apStrict = FALSE
    /\ apPc = "unmounted"
    /\ apRoomId = NoRoom
    /\ apPrevRoom = NoRoom
    /\ didRun = NoRef
    /\ connections = << >>
    /\ apCleanup = NoCleanup
    /\ apDeps = << >>
    /\ apMounts = 0
    /\ apRenders = 0
    /\ placement = "initializeApp"
    /\ appStrict = FALSE
    /\ appInitialized = FALSE
    /\ initLog = << >>
    /\ initCalls = 0
    /\ appMounts = 0
    /\ appPc = "notLoaded"
    /\ hGame = InitialGame
    /\ eGame = InitialEffectGame
    /\ hQueue = << >>
    /\ eQueue = << >>
    /\ eDeps = << >>
    /\ hAlerts = << >>
    /\ eAlerts = << >>
    /\ hThrown = << >>
    /\ eThrown = << >>
    /\ placed = 0
    /\ ePc = "rendered"
    /\ eRenders = 0
    /\ localStorage = [k \in DraftKeys |-> << >>]
    /\ recipient = NoRecipient
    /\ draft = ""
    /\ cPending = << >>
    /\ cDeps = << >>
    /\ typed = [r \in Recipients |-> << >>]
    /\ cPc = "unmounted"
    /\ cSteps = 0
    /\ cart = [items |-> << >>, total |-> 0]
    /\ cartQueue = << >>
    /\ cartError = NoError
    /\ cartCalls = 0
    /\ cartPc = "idle"
    /\ dQuery = InitialQuery
    /\ dResults = NoResults
    /\ dQueue = << >>
    /\ dDeps = << >>
    /\ runs = << >>
    /\ setResultsCalls = << >>
    /\ dPc = "unmounted"
    /\ dMounts = 0
    /\ dTyped = 0
    /\ listItems = {}
    /\ domNodes = [id \in ItemIds |-> NoNode]
    /\ itemRefs = EmptyMap
    /\ nextNode = 1
    /\ scrolled = << >>
    /\ listRenders = 0

ToggleSpec == ToggleInit /\ [][ToggleNext]_vars

\* both games after their first render; the Effects of the first render are still to run
GameInit ==
    /\ hGame = InitialGame
    /\ eGame = InitialEffectGame
    /\ hQueue = << >>
    /\ eQueue = << >>
    /\ eDeps = << >>
    /\ hAlerts = << >>
    /\ eAlerts = << >>
    /\ hThrown = << >>
    /\ eThrown = << >>
    /\ placed = 0
    /\ ePc = "rendered"
    /\ eRenders = 0
    /\ comp = "ChatRoom"
    /\ strictMode = FALSE
    /\ pc = "unmounted"
    /\ roomId = NoRoom
    /\ st = InitialState
    /\ queued = InitialState
    /\ dirty = FALSE
    /\ effect = NoEffect
    /\ resources = NoResources
    /\ nextId = 1
    /\ log = << >>
    /\ renders = 0
    /\ mounts = 0
    /\ heap = << >>
    /\ stateRef = 0
    /\ reducer = "tasksReducer"
    /\ queue = << >>
    /\ outcome = [kind |-> "none"]
    /\ calls = 0
    /\ variant = "App"
    /\ want = Nothing
    /\ fiber = NoFiber
    /\ shown = Blank
    /\ typedFor = NoId
    /\ tpc = "idle"
    /\ tsteps = 0
    /\ hooks = << >>
    /\ objects = << >>
    /\ snapshot = NoSnapshot
    /\ pendingCount = NoUpdate
    /\ console = << >>
    /\ hrenders = 0
    /\ layout = "Toolbar"
    /\ event = NoEvent
    /\ alerts = << >>
    /\ events = 0
    /\ avatar = "2_MiddleComponent"
    /\ user = [name |-> "Lin Lanying", imageId |-> "1bX5QH6"]
    /\ size = <<100>>
    /\ props = NoProps
    /\ output = NoOutput
    /\ stage = "start"
    /\ page = "Page"
    /\ pageProps = NoPageProps
    /\ closures = << >>
    /\ fnRef = NoFnRef
    /\ returned = NoFn
    /\ mounting = FALSE
    /\ ownEffect = [deps |-> << >>, subscribed |-> NoFn]
    /\ visits = << >>
    /\ prenders = 0
    /\ ppc = "unmounted"
    /\ query = NoQuery
    /\ results = NoResults
    /\ isLoading = FALSE
    /\ fetches = << >>
    /\ searchDeps = << >>
    /\ srenders = 0
    /\ spc = "unmounted"
    /\ apStrict = FALSE
    /\ apPc = "unmounted"
    /\ apRoomId = NoRoom
    /\ apPrevRoom = NoRoom
    /\ didRun = NoRef
    /\ connections = << >>
    /\ apCleanup = NoCleanup
    /\ apDeps = << >>
    /\ apMounts = 0
    /\ apRenders = 0
    /\ placement = "initializeApp"
    /\ appStrict = FALSE
    /\ appInitialized = FALSE
    /\ initLog = << >>
    /\ initCalls = 0
    /\ appMounts = 0
    /\ appPc = "notLoaded"
    /\ toggle = "handler"
    /\ isOn = FALSE
    /\ tPending = NoUpdate
    /\ onChange = NoOnChange
    /\ tDeps = << >>
    /\ notified = << >>
    /\ tMounting = FALSE
    /\ tRenders = 0
    /\ tClicks = 0
    /\ tPc = "unmounted"
    /\ localStorage = [k \in DraftKeys |-> << >>]
    /\ recipient = NoRecipient
    /\ draft = ""
    /\ cPending = << >>
    /\ cDeps = << >>
    /\ typed = [r \in Recipients |-> << >>]
    /\ cPc = "unmounted"
    /\ cSteps = 0
    /\ cart = [items |-> << >>, total |-> 0]
    /\ cartQueue = << >>
    /\ cartError = NoError
    /\ cartCalls = 0
    /\ cartPc = "idle"
    /\ dQuery = InitialQuery
    /\ dResults = NoResults
    /\ dQueue = << >>
    /\ dDeps = << >>
    /\ runs = << >>
    /\ setResultsCalls = << >>
    /\ dPc = "unmounted"
    /\ dMounts = 0
    /\ dTyped = 0
    /\ listItems = {}
    /\ domNodes = [id \in ItemIds |-> NoNode]
    /\ itemRefs = EmptyMap
    /\ nextNode = 1
    /\ scrolled = << >>
    /\ listRenders = 0

GameSpec == GameInit /\ [][GameNext]_vars

\* Chat not yet mounted, localStorage empty
ChatInit ==
    /\ localStorage = [k \in DraftKeys |-> << >>]
    /\ recipient = NoRecipient
    /\ draft = ""
    /\ cPending = << >>
    /\ cDeps = << >>
    /\ typed = [r \in Recipients |-> << >>]
    /\ cPc = "unmounted"
    /\ cSteps = 0
    /\ comp = "ChatRoom"
    /\ strictMode = FALSE
    /\ pc = "unmounted"
    /\ roomId = NoRoom
    /\ st = InitialState
    /\ queued = InitialState
    /\ dirty = FALSE
    /\ effect = NoEffect
    /\ resources = NoResources
    /\ nextId = 1
    /\ log = << >>
    /\ renders = 0
    /\ mounts = 0
    /\ heap = << >>
    /\ stateRef = 0
    /\ reducer = "tasksReducer"
    /\ queue = << >>
    /\ outcome = [kind |-> "none"]
    /\ calls = 0
    /\ variant = "App"
    /\ want = Nothing
    /\ fiber = NoFiber
    /\ shown = Blank
    /\ typedFor = NoId
    /\ tpc = "idle"
    /\ tsteps = 0
    /\ hooks = << >>
    /\ objects = << >>
    /\ snapshot = NoSnapshot
    /\ pendingCount = NoUpdate
    /\ console = << >>
    /\ hrenders = 0
    /\ layout = "Toolbar"
    /\ event = NoEvent
    /\ alerts = << >>
    /\ events = 0
    /\ avatar = "2_MiddleComponent"
    /\ user = [name |-> "Lin Lanying", imageId |-> "1bX5QH6"]
    /\ size = <<100>>
    /\ props = NoProps
    /\ output = NoOutput
    /\ stage = "start"
    /\ page = "Page"
    /\ pageProps = NoPageProps
    /\ closures = << >>
    /\ fnRef = NoFnRef
    /\ returned = NoFn
    /\ mounting = FALSE
    /\ ownEffect = [deps |-> << >>, subscribed |-> NoFn]
    /\ visits = << >>
    /\ prenders = 0
    /\ ppc = "unmounted"
    /\ query = NoQuery
    /\ results = NoResults
    /\ isLoading = FALSE
    /\ fetches = << >>
    /\ searchDeps = << >>
    /\ srenders = 0
    /\ spc = "unmounted"
    /\ apStrict = FALSE
    /\ apPc = "unmounted"
    /\ apRoomId = NoRoom
    /\ apPrevRoom = NoRoom
    /\ didRun = NoRef
    /\ connections = << >>
    /\ apCleanup = NoCleanup
    /\ apDeps = << >>
    /\ apMounts = 0
    /\ apRenders = 0
    /\ placement = "initializeApp"
    /\ appStrict = FALSE
    /\ appInitialized = FALSE
    /\ initLog = << >>
    /\ initCalls = 0
    /\ appMounts = 0
    /\ appPc = "notLoaded"
    /\ toggle = "handler"
    /\ isOn = FALSE
    /\ tPending = NoUpdate
    /\ onChange = NoOnChange
    /\ tDeps = << >>
    /\ notified = << >>
    /\ tMounting = FALSE
    /\ tRenders = 0
    /\ tClicks = 0
    /\ tPc = "unmounted"
    /\ hGame = InitialGame
    /\ eGame = InitialEffectGame
    /\ hQueue = << >>
    /\ eQueue = << >>
    /\ eDeps = << >>
    /\ hAlerts = << >>
    /\ eAlerts = << >>
    /\ hThrown = << >>
    /\ eThrown = << >>
    /\ placed = 0
    /\ ePc = "rendered"
    /\ eRenders = 0
    /\ cart = [items |-> << >>, total |-> 0]
    /\ cartQueue = << >>
    /\ cartError = NoError
    /\ cartCalls = 0
    /\ cartPc = "idle"
    /\ dQuery = InitialQuery
    /\ dResults = NoResults
    /\ dQueue = << >>
    /\ dDeps = << >>
    /\ runs = << >>
    /\ setResultsCalls = << >>
    /\ dPc = "unmounted"
    /\ dMounts = 0
    /\ dTyped = 0
    /\ listItems = {}
    /\ domNodes = [id \in ItemIds |-> NoNode]
    /\ itemRefs = EmptyMap
    /\ nextNode = 1
    /\ scrolled = << >>
    /\ listRenders = 0

ChatSpec == ChatInit /\ [][ChatNext]_vars

\* the component using useCart after its first render
CartInit ==
    /\ cart = [items |-> << >>, total |-> 0]
    /\ cartQueue = << >>
    /\ cartError = NoError
    /\ cartCalls = 0
    /\ cartPc = "idle"
    /\ comp = "ChatRoom"
    /\ strictMode = FALSE
    /\ pc = "unmounted"
    /\ roomId = NoRoom
    /\ st = InitialState
    /\ queued = InitialState
    /\ dirty = FALSE
    /\ effect = NoEffect
    /\ resources = NoResources
    /\ nextId = 1
    /\ log = << >>
    /\ renders = 0
    /\ mounts = 0
    /\ heap = << >>
    /\ stateRef = 0
    /\ reducer = "tasksReducer"
    /\ queue = << >>
    /\ outcome = [kind |-> "none"]
    /\ calls = 0
    /\ variant = "App"
    /\ want = Nothing
    /\ fiber = NoFiber
    /\ shown = Blank
    /\ typedFor = NoId
    /\ tpc = "idle"
    /\ tsteps = 0
    /\ hooks = << >>
    /\ objects = << >>
    /\ snapshot = NoSnapshot
    /\ pendingCount = NoUpdate
    /\ console = << >>
    /\ hrenders = 0
    /\ layout = "Toolbar"
    /\ event = NoEvent
    /\ alerts = << >>
    /\ events = 0
    /\ avatar = "2_MiddleComponent"
    /\ user = [name |-> "Lin Lanying", imageId |-> "1bX5QH6"]
    /\ size = <<100>>
    /\ props = NoProps
    /\ output = NoOutput
    /\ stage = "start"
    /\ page = "Page"
    /\ pageProps = NoPageProps
    /\ closures = << >>
    /\ fnRef = NoFnRef
    /\ returned = NoFn
    /\ mounting = FALSE
    /\ ownEffect = [deps |-> << >>, subscribed |-> NoFn]
    /\ visits = << >>
    /\ prenders = 0
    /\ ppc = "unmounted"
    /\ query = NoQuery
    /\ results = NoResults
    /\ isLoading = FALSE
    /\ fetches = << >>
    /\ searchDeps = << >>
    /\ srenders = 0
    /\ spc = "unmounted"
    /\ apStrict = FALSE
    /\ apPc = "unmounted"
    /\ apRoomId = NoRoom
    /\ apPrevRoom = NoRoom
    /\ didRun = NoRef
    /\ connections = << >>
    /\ apCleanup = NoCleanup
    /\ apDeps = << >>
    /\ apMounts = 0
    /\ apRenders = 0
    /\ placement = "initializeApp"
    /\ appStrict = FALSE
    /\ appInitialized = FALSE
    /\ initLog = << >>
    /\ initCalls = 0
    /\ appMounts = 0
    /\ appPc = "notLoaded"
    /\ toggle = "handler"
    /\ isOn = FALSE
    /\ tPending = NoUpdate
    /\ onChange = NoOnChange
    /\ tDeps = << >>
    /\ notified = << >>
    /\ tMounting = FALSE
    /\ tRenders = 0
    /\ tClicks = 0
    /\ tPc = "unmounted"
    /\ hGame = InitialGame
    /\ eGame = InitialEffectGame
    /\ hQueue = << >>
    /\ eQueue = << >>
    /\ eDeps = << >>
    /\ hAlerts = << >>
    /\ eAlerts = << >>
    /\ hThrown = << >>
    /\ eThrown = << >>
    /\ placed = 0
    /\ ePc = "rendered"
    /\ eRenders = 0
    /\ localStorage = [k \in DraftKeys |-> << >>]
    /\ recipient = NoRecipient
    /\ draft = ""
    /\ cPending = << >>
    /\ cDeps = << >>
    /\ typed = [r \in Recipients |-> << >>]
    /\ cPc = "unmounted"
    /\ cSteps = 0
    /\ dQuery = InitialQuery
    /\ dResults = NoResults
    /\ dQueue = << >>
    /\ dDeps = << >>
    /\ runs = << >>
    /\ setResultsCalls = << >>
    /\ dPc = "unmounted"
    /\ dMounts = 0
    /\ dTyped = 0
    /\ listItems = {}
    /\ domNodes = [id \in ItemIds |-> NoNode]
    /\ itemRefs = EmptyMap
    /\ nextNode = 1
    /\ scrolled = << >>
    /\ listRenders = 0

CartSpec == CartInit /\ [][CartNext]_vars

\* SearchResults not yet mounted, no Effect run so far
DelayedInit ==
    /\ dQuery = InitialQuery
    /\ dResults = NoResults
    /\ dQueue = << >>
    /\ dDeps = << >>
    /\ runs = << >>
    /\ setResultsCalls = << >>
    /\ dPc = "unmounted"
    /\ dMounts = 0
    /\ dTyped = 0
    /\ comp = "ChatRoom"
    /\ strictMode = FALSE
    /\ pc = "unmounted"
    /\ roomId = NoRoom
    /\ st = InitialState
    /\ queued = InitialState
    /\ dirty = FALSE
    /\ effect = NoEffect
    /\ resources = NoResources
    /\ nextId = 1
    /\ log = << >>
    /\ renders = 0
    /\ mounts = 0
    /\ heap = << >>
    /\ stateRef = 0
    /\ reducer = "tasksReducer"
    /\ queue = << >>
    /\ outcome = [kind |-> "none"]
    /\ calls = 0
    /\ variant = "App"
    /\ want = Nothing
    /\ fiber = NoFiber
    /\ shown = Blank
    /\ typedFor = NoId
    /\ tpc = "idle"
    /\ tsteps = 0
    /\ hooks = << >>
    /\ objects = << >>
    /\ snapshot = NoSnapshot
    /\ pendingCount = NoUpdate
    /\ console = << >>
    /\ hrenders = 0
    /\ layout = "Toolbar"
    /\ event = NoEvent
    /\ alerts = << >>
    /\ events = 0
    /\ avatar = "2_MiddleComponent"
    /\ user = [name |-> "Lin Lanying", imageId |-> "1bX5QH6"]
    /\ size = <<100>>
    /\ props = NoProps
    /\ output = NoOutput
    /\ stage = "start"
    /\ page = "Page"
    /\ pageProps = NoPageProps
    /\ closures = << >>
    /\ fnRef = NoFnRef
    /\ returned = NoFn
    /\ mounting = FALSE
    /\ ownEffect = [deps |-> << >>, subscribed |-> NoFn]
    /\ visits = << >>
    /\ prenders = 0
    /\ ppc = "unmounted"
    /\ query = NoQuery
    /\ results = NoResults
    /\ isLoading = FALSE
    /\ fetches = << >>
    /\ searchDeps = << >>
    /\ srenders = 0
    /\ spc = "unmounted"
    /\ apStrict = FALSE
    /\ apPc = "unmounted"
    /\ apRoomId = NoRoom
    /\ apPrevRoom = NoRoom
    /\ didRun = NoRef
    /\ connections = << >>
    /\ apCleanup = NoCleanup
    /\ apDeps = << >>
    /\ apMounts = 0
    /\ apRenders = 0
    /\ placement = "initializeApp"
    /\ appStrict = FALSE
    /\ appInitialized = FALSE
    /\ initLog = << >>
    /\ initCalls = 0
    /\ appMounts = 0
    /\ appPc = "notLoaded"
    /\ toggle = "handler"
    /\ isOn = FALSE
    /\ tPending = NoUpdate
    /\ onChange = NoOnChange
    /\ tDeps = << >>
    /\ notified = << >>
    /\ tMounting = FALSE
    /\ tRenders = 0
    /\ tClicks = 0
    /\ tPc = "unmounted"
    /\ hGame = InitialGame
    /\ eGame = InitialEffectGame
    /\ hQueue = << >>
    /\ eQueue = << >>
    /\ eDeps = << >>
    /\ hAlerts = << >>
    /\ eAlerts = << >>
    /\ hThrown = << >>
    /\ eThrown = << >>
    /\ placed = 0
    /\ ePc = "rendered"
    /\ eRenders = 0
    /\ localStorage = [k \in DraftKeys |-> << >>]
    /\ recipient = NoRecipient
    /\ draft = ""
    /\ cPending = << >>
    /\ cDeps = << >>
    /\ typed = [r \in Recipients |-> << >>]
    /\ cPc = "unmounted"
    /\ cSteps = 0
    /\ cart = [items |-> << >>, total |-> 0]
    /\ cartQueue = << >>
    /\ cartError = NoError
    /\ cartCalls = 0
    /\ cartPc = "idle"
    /\ listItems = {}
    /\ domNodes = [id \in ItemIds |-> NoNode]
    /\ itemRefs = EmptyMap
    /\ nextNode = 1
    /\ scrolled = << >>
    /\ listRenders = 0

DelayedSpec == DelayedInit /\ [][DelayedNext]_vars

\* the list component before its first render, the Map empty
RefsInit ==
    /\ listItems = {}
    /\ domNodes = [id \in ItemIds |-> NoNode]
    /\ itemRefs = EmptyMap
    /\ nextNode = 1
    /\ scrolled = << >>
    /\ listRenders = 0
    /\ comp = "ChatRoom"
    /\ strictMode = FALSE
    /\ pc = "unmounted"
    /\ roomId = NoRoom
    /\ st = InitialState
    /\ queued = InitialState
    /\ dirty = FALSE
    /\ effect = NoEffect
    /\ resources = NoResources
    /\ nextId = 1
    /\ log = << >>
    /\ renders = 0
    /\ mounts = 0
    /\ heap = << >>
    /\ stateRef = 0
    /\ reducer = "tasksReducer"
    /\ queue = << >>
    /\ outcome = [kind |-> "none"]
    /\ calls = 0
    /\ variant = "App"
    /\ want = Nothing
    /\ fiber = NoFiber
    /\ shown = Blank
    /\ typedFor = NoId
    /\ tpc = "idle"
    /\ tsteps = 0
    /\ hooks = << >>
    /\ objects = << >>
    /\ snapshot = NoSnapshot
    /\ pendingCount = NoUpdate
    /\ console = << >>
    /\ hrenders = 0
    /\ layout = "Toolbar"
    /\ event = NoEvent
    /\ alerts = << >>
    /\ events = 0
    /\ avatar = "2_MiddleComponent"
    /\ user = [name |-> "Lin Lanying", imageId |-> "1bX5QH6"]
    /\ size = <<100>>
    /\ props = NoProps
    /\ output = NoOutput
    /\ stage = "start"
    /\ page = "Page"
    /\ pageProps = NoPageProps
    /\ closures = << >>
    /\ fnRef = NoFnRef
    /\ returned = NoFn
    /\ mounting = FALSE
    /\ ownEffect = [deps |-> << >>, subscribed |-> NoFn]
    /\ visits = << >>
    /\ prenders = 0
    /\ ppc = "unmounted"
    /\ query = NoQuery
    /\ results = NoResults
    /\ isLoading = FALSE
    /\ fetches = << >>
    /\ searchDeps = << >>
    /\ srenders = 0
    /\ spc = "unmounted"
    /\ apStrict = FALSE
    /\ apPc = "unmounted"
    /\ apRoomId = NoRoom
    /\ apPrevRoom = NoRoom
    /\ didRun = NoRef
    /\ connections = << >>
    /\ apCleanup = NoCleanup
    /\ apDeps = << >>
    /\ apMounts = 0
    /\ apRenders = 0
    /\ placement = "initializeApp"
    /\ appStrict = FALSE
    /\ appInitialized = FALSE
    /\ initLog = << >>
    /\ initCalls = 0
    /\ appMounts = 0
    /\ appPc = "notLoaded"
    /\ toggle = "handler"
    /\ isOn = FALSE
    /\ tPending = NoUpdate
    /\ onChange = NoOnChange
    /\ tDeps = << >>
    /\ notified = << >>
    /\ tMounting = FALSE
    /\ tRenders = 0
    /\ tClicks = 0
    /\ tPc = "unmounted"
    /\ hGame = InitialGame
    /\ eGame = InitialEffectGame
    /\ hQueue = << >>
    /\ eQueue = << >>
    /\ eDeps = << >>
    /\ hAlerts = << >>
    /\ eAlerts = << >>
    /\ hThrown = << >>
    /\ eThrown = << >>
    /\ placed = 0
    /\ ePc = "rendered"
    /\ eRenders = 0
    /\ localStorage = [k \in DraftKeys |-> << >>]
    /\ recipient = NoRecipient
    /\ draft = ""
    /\ cPending = << >>
    /\ cDeps = << >>
    /\ typed = [r \in Recipients |-> << >>]
    /\ cPc = "unmounted"
    /\ cSteps = 0
    /\ cart = [items |-> << >>, total |-> 0]
    /\ cartQueue = << >>
    /\ cartError = NoError
    /\ cartCalls = 0
    /\ cartPc = "idle"
    /\ dQuery = InitialQuery
    /\ dResults = NoResults
    /\ dQueue = << >>
    /\ dDeps = << >>
    /\ runs = << >>
    /\ setResultsCalls = << >>
    /\ dPc = "unmounted"
    /\ dMounts = 0
    /\ dTyped = 0

RefsSpec == RefsInit /\ [][RefsNext]_vars

====
